---- MODULE Spec2Model ----
(***************************************************************************)
(* Model of alpa::ImplicitTreap (include/algorithm_pack/implicit_treap.h). *)
(*                                                                         *)
(* The node graph is an arena `nodes` indexed by node identity; a pointer  *)
(* is a node identity or Null.  A container is a slot of `alive`, `root_`  *)
(* and `size_`; a slot that is not alive is an object that does not exist  *)
(* (not yet constructed, or destroyed).  Every public operation is one     *)
(* action, and its effect is an operator (InsertResult, EraseResult, ...)  *)
(* from the state before the call to the state after it.  A property of an *)
(* operation is stated over every reachable state and every argument: the  *)
(* operator applied to the state, compared with the sequence it must give. *)
(*                                                                         *)
(* rnd_() is std::mt19937_64; a draw is modelled as a free choice from     *)
(* Priorities, so every assignment of priorities, ties included, occurs.   *)
(* The generator's state is not a variable: what a call does to it is the  *)
(* number of draws the call makes, a field of the call's result.           *)
(*                                                                         *)
(* An iterator is a value, a node pointer and a host pointer; its          *)
(* operators are operators of the heap they are used in.  Asserts are      *)
(* compiled in: a call that fails one gives Abort.  Undefined behaviour    *)
(* gives a set of possible results.                                        *)
(***************************************************************************)
EXTENDS Integers, Sequences, FiniteSets, TLC

\* ------------------------------------------------------------------ bounds
MaxNodes == 3
MaxPriority == 2
MaxValue == 2
MaxSize == 3
MaxCount == 3
MaxKey == 4

\* ------------------------------------------------------------- definitions
Null == 0
NodeIds == 1..MaxNodes
Treaps == {1, 2}
Priorities == 1..MaxPriority
Values == 1..MaxValue
Positions == 0..MaxSize
Counts == (0 - MaxCount)..MaxCount
Keys == 1..MaxKey
\* The keyed treap holds at most one node per key.
TreapNodeIds == 1..MaxKey

VARIABLES nodes, alive, root_, size_

\* alpa::Treap (include/algorithm_pack/treap.h), the keyed treap: one object,
\* its nodes in an arena of their own, its root_ and its size_.
VARIABLES treap_nodes, treap_root_, treap_size_
treapVars == <<treap_nodes, treap_root_, treap_size_>>

vars == <<nodes, alive, root_, size_, treap_nodes, treap_root_, treap_size_>>

\* A slot of the arena that holds no node (not allocated, or deleted).
NoNode ==
  [left |-> Null, right |-> Null, parent |-> Null, tree_size |-> 0,
   priority |-> 0, value |-> 0]

\* struct Node: Node(val, p)
Node(val, p) ==
  [left |-> Null, right |-> Null, parent |-> Null, tree_size |-> 1,
   priority |-> p, value |-> val]

\* A slot of the keyed treap's arena that holds no node.
TreapNoNode ==
  [key |-> 0, value |-> 0, priority |-> 0, left |-> Null, right |-> Null]

\* Treap::Node(k, v, p)
TreapNode(k, v, p) ==
  [key |-> k, value |-> v, priority |-> p, left |-> Null, right |-> Null]

Min(a, b) == IF a < b THEN a ELSE b

Allocated(h) == {n \in NodeIds : h[n] # NoNode}
FreeIds(h) == NodeIds \ Allocated(h)

\* operator new: the address of the new node is one that is not in use; which
\* one is immaterial, the lowest is taken.
NewNodeId(h) == CHOOSE n \in FreeIds(h) : \A m \in FreeIds(h) : n <= m

GetTreeSize(h, node) == IF node = Null THEN 0 ELSE h[node].tree_size

\* FixTreeSize that forgets the right subtree.
FixTreeSizeLeftOnly(h, node) ==
  [h EXCEPT ![node].tree_size = GetTreeSize(h, h[node].left) + 1]

FixTreeSize(h, node) ==
  [h EXCEPT ![node].tree_size =
     GetTreeSize(h, h[node].left) + GetTreeSize(h, h[node].right) + 1]

\* FixParent that forgets the right child.
FixParentLeftOnly(h, node) ==
  IF h[node].left # Null
    THEN [h EXCEPT ![h[node].left].parent = node] ELSE h

FixParent(h, node) ==
  LET h1 == IF h[node].left # Null
              THEN [h EXCEPT ![h[node].left].parent = node] ELSE h
  IN IF h1[node].right # Null
       THEN [h1 EXCEPT ![h1[node].right].parent = node] ELSE h1

\* Merge with the priority comparison turned round.
RECURSIVE MergeLowerOnTop(_, _, _)
MergeLowerOnTop(h, lhs, rhs) ==
  IF lhs = Null THEN [h |-> h, root |-> rhs]
  ELSE IF rhs = Null THEN [h |-> h, root |-> lhs]
  ELSE IF h[lhs].priority < h[rhs].priority
    THEN LET m == MergeLowerOnTop(h, h[lhs].right, rhs)
             h1 == [m.h EXCEPT ![lhs].right = m.root]
         IN [h |-> FixTreeSize(FixParent(h1, lhs), lhs), root |-> lhs]
    ELSE LET m == MergeLowerOnTop(h, lhs, h[rhs].left)
             h1 == [m.h EXCEPT ![rhs].left = m.root]
         IN [h |-> FixTreeSize(FixParent(h1, rhs), rhs), root |-> rhs]

\* Merge that, with lhs on top, merges rhs before lhs->right.
RECURSIVE MergeArgsSwapped(_, _, _)
MergeArgsSwapped(h, lhs, rhs) ==
  IF lhs = Null THEN [h |-> h, root |-> rhs]
  ELSE IF rhs = Null THEN [h |-> h, root |-> lhs]
  ELSE IF h[lhs].priority > h[rhs].priority
    THEN LET m == MergeArgsSwapped(h, rhs, h[lhs].right)
             h1 == [m.h EXCEPT ![lhs].right = m.root]
         IN [h |-> FixTreeSize(FixParent(h1, lhs), lhs), root |-> lhs]
    ELSE LET m == MergeArgsSwapped(h, lhs, h[rhs].left)
             h1 == [m.h EXCEPT ![rhs].left = m.root]
         IN [h |-> FixTreeSize(FixParent(h1, rhs), rhs), root |-> rhs]

RECURSIVE Merge(_, _, _)
Merge(h, lhs, rhs) ==
  IF lhs = Null THEN [h |-> h, root |-> rhs]
  ELSE IF rhs = Null THEN [h |-> h, root |-> lhs]
  ELSE IF h[lhs].priority > h[rhs].priority
    THEN LET m == Merge(h, h[lhs].right, rhs)
             h1 == [m.h EXCEPT ![lhs].right = m.root]
         IN [h |-> FixTreeSize(FixParent(h1, lhs), lhs), root |-> lhs]
    ELSE LET m == Merge(h, lhs, h[rhs].left)
             h1 == [m.h EXCEPT ![rhs].left = m.root]
         IN [h |-> FixTreeSize(FixParent(h1, rhs), rhs), root |-> rhs]

\* The end of Split without `->parent = nullptr`.
SplitFixRootKeepsParent(h, node) ==
  IF node = Null THEN h
  ELSE FixTreeSize(FixParent(h, node), node)

\* The tail of Split: fix the children's parents and the size of each result
\* root, and clear the root's parent.
SplitFixRoot(h, node) ==
  IF node = Null THEN h
  ELSE [FixTreeSize(FixParent(h, node), node) EXCEPT ![node].parent = Null]

\* Split with the comparison `elements_until_this <= el_number`.
RECURSIVE SplitOffByOne(_, _, _)
SplitOffByOne(h, el_number, node) ==
  IF node = Null THEN [h |-> h, first |-> Null, second |-> Null]
  ELSE LET elements_until_this == GetTreeSize(h, h[node].left) + 1 IN
    IF elements_until_this <= el_number
      THEN LET s == SplitOffByOne(h, el_number - elements_until_this, h[node].right)
               h1 == [s.h EXCEPT ![node].right = s.first]
           IN [h |-> SplitFixRoot(SplitFixRoot(h1, node), s.second),
               first |-> node, second |-> s.second]
      ELSE LET s == SplitOffByOne(h, el_number, h[node].left)
               h1 == [s.h EXCEPT ![node].left = s.second]
           IN [h |-> SplitFixRoot(SplitFixRoot(h1, s.first), node),
               first |-> s.first, second |-> node]

\* Split that, when the node goes to the first result, forgets the other part
\* of its right subtree.
RECURSIVE SplitDropsOther(_, _, _)
SplitDropsOther(h, el_number, node) ==
  IF node = Null THEN [h |-> h, first |-> Null, second |-> Null]
  ELSE LET elements_until_this == GetTreeSize(h, h[node].left) + 1 IN
    IF elements_until_this < el_number
      THEN LET s == SplitDropsOther(h, el_number - elements_until_this, h[node].right)
               h1 == [s.h EXCEPT ![node].right = s.first]
           IN [h |-> SplitFixRoot(h1, node), first |-> node, second |-> Null]
      ELSE LET s == SplitDropsOther(h, el_number, h[node].left)
               h1 == [s.h EXCEPT ![node].left = s.second]
           IN [h |-> SplitFixRoot(SplitFixRoot(h1, s.first), node),
               first |-> s.first, second |-> node]

RECURSIVE Split(_, _, _)
Split(h, el_number, node) ==
  IF node = Null THEN [h |-> h, first |-> Null, second |-> Null]
  ELSE LET elements_until_this == GetTreeSize(h, h[node].left) + 1 IN
    IF elements_until_this < el_number
      THEN LET s == Split(h, el_number - elements_until_this, h[node].right)
               h1 == [s.h EXCEPT ![node].right = s.first]
           IN [h |-> SplitFixRoot(SplitFixRoot(h1, node), s.second),
               first |-> node, second |-> s.second]
      ELSE LET s == Split(h, el_number, h[node].left)
               h1 == [s.h EXCEPT ![node].left = s.second]
           IN [h |-> SplitFixRoot(SplitFixRoot(h1, s.first), node),
               first |-> s.first, second |-> node]

RECURSIVE DeleteTree(_, _)
DeleteTree(h, root) ==
  IF root = Null THEN h
  ELSE [DeleteTree(DeleteTree(h, h[root].left), h[root].right)
          EXCEPT ![root] = NoNode]

\* ------------------------------------------------- observation of a tree
\* The nodes of the tree under `node`, in order (what Begin()..End() visits).
RECURSIVE InOrder(_, _)
InOrder(h, node) ==
  IF node = Null THEN <<>>
  ELSE InOrder(h, h[node].left) \o <<node>> \o InOrder(h, h[node].right)

ValuesOf(h, s) == [i \in 1..Len(s) |-> h[s[i]].value]

Seq_(t) == InOrder(nodes, root_[t])
Empty(t) == root_[t] = Null
Size(t) == size_[t]

\* s[from..to) with 0-based positions, cut at the end of s
Slice(s, from, to) == SubSeq(s, Min(from, Len(s)) + 1, Min(to, Len(s)))

\* ------------------------------------------ navigation and iterators
\* The call did not return: an assert failed (asserts are compiled in).
Abort == 0 - 1

\* `while (root->left) root = root->left;`
RECURSIVE Leftmost(_, _)
Leftmost(h, node) ==
  IF h[node].left # Null THEN Leftmost(h, h[node].left) ELSE node

\* `while (root->right) root = root->right;`
RECURSIVE Rightmost(_, _)
Rightmost(h, node) ==
  IF h[node].right # Null THEN Rightmost(h, h[node].right) ELSE node

FindFirstNode(h, root) == IF root = Null THEN Null ELSE Leftmost(h, root)

\* assert(root)
FindLastNode(h, root) == IF root = Null THEN Abort ELSE Rightmost(h, root)

\* GetNextNode: `while (parent) { if (parent->left == node) break; ... }`
RECURSIVE ClimbFromLeft(_, _, _)
ClimbFromLeft(h, node, parent) ==
  IF parent = Null THEN Null
  ELSE IF h[parent].left = node THEN parent
  ELSE ClimbFromLeft(h, parent, h[parent].parent)

\* GetPrevNode: `while (parent) { if (parent->right == node) break; ... }`
RECURSIVE ClimbFromRight(_, _, _)
ClimbFromRight(h, node, parent) ==
  IF parent = Null THEN Null
  ELSE IF h[parent].right = node THEN parent
  ELSE ClimbFromRight(h, parent, h[parent].parent)

\* GetNextNode that takes the right child itself for the next node.
GetNextNodeNoDescent(h, curr_node) ==
  IF curr_node = Null THEN Abort
  ELSE IF h[curr_node].right = Null
    THEN ClimbFromLeft(h, curr_node, h[curr_node].parent)
    ELSE h[curr_node].right

GetNextNode(h, curr_node) ==
  IF curr_node = Null THEN Abort
  ELSE IF h[curr_node].right = Null
    THEN ClimbFromLeft(h, curr_node, h[curr_node].parent)
    ELSE Leftmost(h, h[curr_node].right)

GetPrevNode(h, curr_node) ==
  IF curr_node = Null THEN Abort
  ELSE IF h[curr_node].left = Null
    THEN ClimbFromRight(h, curr_node, h[curr_node].parent)
    ELSE Rightmost(h, h[curr_node].left)

\* GetElement; el_number is a size_t, and one that wrapped below zero is
\* larger than any tree: the descent goes right until assert(root) fails.
RECURSIVE GetElement(_, _, _)
GetElement(h, root, el_number) ==
  IF el_number <= 0 \/ root = Null THEN Abort
  ELSE LET curr_el_number == GetTreeSize(h, h[root].left) + 1 IN
    IF el_number < curr_el_number THEN GetElement(h, h[root].left, el_number)
    ELSE IF el_number > curr_el_number
      THEN GetElement(h, h[root].right, el_number - curr_el_number)
    ELSE root

\* GetElementNumber: the `while (parent)` loop
RECURSIVE ClimbNumber(_, _, _, _)
ClimbNumber(h, node, parent, curr_num) ==
  IF parent = Null THEN curr_num
  ELSE ClimbNumber(h, parent, h[parent].parent,
                   IF h[parent].right = node
                     THEN curr_num + GetTreeSize(h, h[parent].left) + 1
                     ELSE curr_num)

GetElementNumber(h, node) ==
  IF node = Null THEN Abort
  ELSE ClimbNumber(h, node, h[node].parent, GetTreeSize(h, h[node].left) + 1)

\* What a call with undefined behaviour may give: any pointer, or no return.
AnyPointer == NodeIds \cup {Null, Abort}

\* ShiftNode that stops on the first element when the target is before it.
ShiftNodeClampsToFirst(h, curr_node, root, shift) ==
  LET number == GetElementNumber(h, curr_node) + shift IN
  IF root = Null THEN AnyPointer
  ELSE IF number > h[root].tree_size THEN {Null}
  ELSE IF number < 1 THEN {GetElement(h, root, 1)}
  ELSE {GetElement(h, root, number)}

\* ShiftNode: the set of its possible results.  `root->tree_size` with a null
\* root is undefined.  curr_number + shift is a size_t: below zero it wraps
\* to a number larger than any tree_size, so the test reads the same.
ShiftNode(h, curr_node, root, shift) ==
  LET number == GetElementNumber(h, curr_node) + shift IN
  IF root = Null THEN AnyPointer
  ELSE IF number < 1 \/ number > h[root].tree_size THEN {Null}
  ELSE {GetElement(h, root, number)}

\* class Iterator / ConstIterator: the two differ in constness only.  An
\* iterator whose curr_node_ is Abort stands for a call that did not return.
Iterator(node, host) == [curr_node_ |-> node, host_ |-> host]

Begin(h, root, t) == Iterator(FindFirstNode(h, root[t]), t)
End(t) == Iterator(Null, t)

\* operator==: assert(lhs.host_ == rhs.host_)
OperatorEq(lhs, rhs) ==
  IF lhs.host_ # rhs.host_ THEN Abort
  ELSE IF lhs.curr_node_ = rhs.curr_node_ THEN 1 ELSE 0

\* operator++
OperatorInc(h, it) == Iterator(GetNextNode(h, it.curr_node_), it.host_)

\* operator*
OperatorDeref(h, it) == h[it.curr_node_].value

\* operator--: assert(host_->root_)
OperatorDec(h, root, it) ==
  IF root[it.host_] = Null THEN Iterator(Abort, it.host_)
  ELSE Iterator(IF it.curr_node_ # Null THEN GetPrevNode(h, it.curr_node_)
                ELSE FindLastNode(h, root[it.host_]), it.host_)

\* operator+(it, shift), shift + it: the set of possible results
OperatorPlus(h, root, size, it, shift) ==
  LET ptrs == IF it.curr_node_ = Null
                THEN {GetElement(h, root[it.host_], size[it.host_] + shift + 1)}
                ELSE ShiftNode(h, it.curr_node_, root[it.host_], shift)
  IN {Iterator(ptr, it.host_) : ptr \in ptrs}

\* operator-(it, shift): `return lhs + (-shift);`
OperatorMinus(h, root, size, it, shift) ==
  OperatorPlus(h, root, size, it, 0 - shift)

\* The element number operator-(lhs, rhs) gives an iterator.
IteratorNumber(h, size, it) ==
  IF it.curr_node_ # Null THEN GetElementNumber(h, it.curr_node_)
  ELSE size[it.host_] + 1

\* operator-(lhs, rhs): assert(lhs.host_ == rhs.host_), then the difference
\* of two size_t converted to int
OperatorDiff(h, size, lhs, rhs) ==
  IF lhs.host_ # rhs.host_ THEN [aborted |-> TRUE, value |-> 0]
  ELSE [aborted |-> FALSE,
        value |-> IteratorNumber(h, size, lhs) - IteratorNumber(h, size, rhs)]

\* ------------------------------------------------------------------ Init
\* One default-constructed container; the second object does not exist yet.
Init ==
  /\ nodes = [n \in NodeIds |-> NoNode]
  /\ alive = [t \in Treaps |-> t = 1]
  /\ root_ = [t \in Treaps |-> Null]
  /\ size_ = [t \in Treaps |-> 0]
  /\ treap_nodes = [n \in TreapNodeIds |-> TreapNoNode]
  /\ treap_root_ = Null
  /\ treap_size_ = 0

\* --------------------------------------------------------------- actions
\* ImplicitTreap() and ImplicitTreap(seed)
Construct(t) ==
  /\ ~alive[t]
  /\ alive' = [alive EXCEPT ![t] = TRUE]
  /\ root_' = [root_ EXCEPT ![t] = Null]
  /\ size_' = [size_ EXCEPT ![t] = 0]
  /\ UNCHANGED nodes
  /\ UNCHANGED treapVars

\* ~ImplicitTreap()
Destroy(t) ==
  /\ alive[t]
  /\ nodes' = DeleteTree(nodes, root_[t])
  /\ alive' = [alive EXCEPT ![t] = FALSE]
  /\ root_' = [root_ EXCEPT ![t] = Null]
  /\ size_' = [size_ EXCEPT ![t] = 0]
  /\ UNCHANGED treapVars

\* Insert that splits at element number pos, not pos + 1.
InsertResultZeroBased(h, root, size, value, pos, p) ==
  LET new_size == size + 1
      new_node == NewNodeId(h)
      h1 == [h EXCEPT ![new_node] = Node(value, p)]
      s == Split(h1, Min(new_size, pos), root)
      m1 == Merge(s.h, s.first, new_node)
      m2 == Merge(m1.h, m1.root, s.second)
  IN [h |-> m2.h, root |-> m2.root, size |-> new_size, node |-> new_node]

\* T& Insert(const T& value, size_t pos)
InsertResult(h, root, size, value, pos, p) ==
  LET new_size == size + 1
      new_node == NewNodeId(h)
      h1 == [h EXCEPT ![new_node] = Node(value, p)]
      s == Split(h1, Min(new_size, pos) + 1, root)
      m1 == Merge(s.h, s.first, new_node)
      m2 == Merge(m1.h, m1.root, s.second)
  IN [h |-> m2.h, root |-> m2.root, size |-> new_size, node |-> new_node]

Insert(t, value, pos, p) ==
  /\ alive[t]
  /\ FreeIds(nodes) # {}
  /\ size_[t] < MaxSize
  /\ LET r == InsertResult(nodes, root_[t], size_[t], value, pos, p) IN
       /\ nodes' = r.h
       /\ root_' = [root_ EXCEPT ![t] = r.root]
       /\ size_' = [size_ EXCEPT ![t] = r.size]
  /\ UNCHANGED alive
  /\ UNCHANGED treapVars

\* ImplicitTreap(const std::vector<T>& input, uint64_t seed): the inner
\* `while (last_included && last_included->priority < new_node->priority)`
RECURSIVE ClimbSpine(_, _, _)
ClimbSpine(h, last_included, p) ==
  IF last_included # Null /\ h[last_included].priority < p
    THEN ClimbSpine(h, h[last_included].parent, p)
    ELSE last_included

\* The sizes fixed on the attachment node only, not up to the root.
FixSizesUpOnce(h, node) ==
  IF node = Null THEN h ELSE FixTreeSize(h, node)

\* `while (last_included) { FixTreeSize(last_included); last_included = parent; }`
RECURSIVE FixSizesUp(_, _)
FixSizesUp(h, node) ==
  IF node = Null THEN h
  ELSE LET h1 == FixTreeSize(h, node) IN FixSizesUp(h1, h1[node].parent)

\* BulkStep without `new_node->left = last_included->right`.
BulkStepDropsRight(st, val, p) ==
  LET new_node == NewNodeId(st.h)
      h0 == [st.h EXCEPT ![new_node] = Node(val, p)]
      last_included == ClimbSpine(h0, st.last_included, p)
  IN IF last_included = Null
       THEN LET h1 == [h0 EXCEPT ![new_node].left = st.root]
                h2 == [h1 EXCEPT ![st.root].parent = new_node]
            IN [h |-> FixTreeSize(h2, new_node), root |-> new_node,
                last_included |-> new_node]
       ELSE LET h2 == [h0 EXCEPT ![last_included].right = new_node]
                h3 == [h2 EXCEPT ![new_node].parent = last_included]
            IN [h |-> FixSizesUp(h3, last_included), root |-> st.root,
                last_included |-> new_node]

\* One turn of the outer `while (it != input.end())`.
BulkStep(st, val, p) ==
  LET new_node == NewNodeId(st.h)
      h0 == [st.h EXCEPT ![new_node] = Node(val, p)]
      last_included == ClimbSpine(h0, st.last_included, p)
  IN IF last_included = Null
       THEN LET h1 == [h0 EXCEPT ![new_node].left = st.root]
                h2 == [h1 EXCEPT ![st.root].parent = new_node]
            IN [h |-> FixTreeSize(h2, new_node), root |-> new_node,
                last_included |-> new_node]
       ELSE LET h1 == IF h0[last_included].right # Null
                        THEN LET a == [h0 EXCEPT ![new_node].left = h0[last_included].right]
                                 b == [a EXCEPT ![a[new_node].left].parent = new_node]
                             IN FixTreeSize(b, new_node)
                        ELSE h0
                h2 == [h1 EXCEPT ![last_included].right = new_node]
                h3 == [h2 EXCEPT ![new_node].parent = last_included]
            IN [h |-> FixSizesUp(h3, last_included), root |-> st.root,
                last_included |-> new_node]

RECURSIVE BulkLoop(_, _, _, _)
BulkLoop(st, input, prios, i) ==
  IF i > Len(input) THEN st
  ELSE BulkLoop(BulkStep(st, input[i], prios[i]), input, prios, i + 1)

BulkResult(h, input, prios) ==
  IF input = <<>> THEN [h |-> h, root |-> Null, size |-> 0]
  ELSE LET first == NewNodeId(h)
           h0 == [h EXCEPT ![first] = Node(input[1], prios[1])]
           st == BulkLoop([h |-> h0, root |-> first, last_included |-> first],
                          input, prios, 2)
       IN [h |-> st.h, root |-> st.root, size |-> Len(input)]

BulkConstruct(t, input, prios) ==
  /\ ~alive[t]
  /\ LET r == BulkResult(nodes, input, prios) IN
       /\ nodes' = r.h
       /\ root_' = [root_ EXCEPT ![t] = r.root]
       /\ size_' = [size_ EXCEPT ![t] = r.size]
  /\ alive' = [alive EXCEPT ![t] = TRUE]
  /\ UNCHANGED treapVars

\* ImplicitTreap(ImplicitTreap&& other): `t` is constructed from `other`
MoveConstructResult(root, size, t, other) ==
  [root |-> [root EXCEPT ![t] = root[other], ![other] = Null],
   size |-> [size EXCEPT ![t] = size[other]]]

MoveConstruct(t, other) ==
  /\ ~alive[t]
  /\ alive[other]
  /\ alive' = [alive EXCEPT ![t] = TRUE]
  /\ LET r == MoveConstructResult(root_, size_, t, other) IN
       /\ root_' = r.root
       /\ size_' = r.size
  /\ UNCHANGED nodes
  /\ UNCHANGED treapVars

\* void Swap(ImplicitTreap& other)
Swap(t, other) ==
  /\ alive[t]
  /\ alive[other]
  /\ root_' = [root_ EXCEPT ![t] = root_[other], ![other] = root_[t]]
  /\ size_' = [size_ EXCEPT ![t] = size_[other], ![other] = size_[t]]
  /\ UNCHANGED <<nodes, alive>>
  /\ UNCHANGED treapVars

\* Move assignment that destroys its own tree, then takes the other's root.
MoveAssignResultDestroysFirst(h, root, size, t, other) ==
  LET h1 == DeleteTree(h, root[t])
      root1 == [root EXCEPT ![t] = root[other]]
      root2 == IF other = t THEN root1 ELSE [root1 EXCEPT ![other] = Null]
  IN [h |-> h1, root |-> root2, size |-> [size EXCEPT ![t] = size[other]]]

\* ImplicitTreap& operator=(ImplicitTreap&& other):
\*   ImplicitTreap tmp(std::move(other)); Swap(tmp); then tmp is destroyed.
MoveAssignResult(h, root, size, t, other) ==
  LET tmp_root == root[other]
      tmp_size == size[other]
      root1 == [root EXCEPT ![other] = Null]
      root2 == [root1 EXCEPT ![t] = tmp_root]
      size2 == [size EXCEPT ![t] = tmp_size]
      tmp_root2 == root1[t]
  IN [h |-> DeleteTree(h, tmp_root2), root |-> root2, size |-> size2]

MoveAssign(t, other) ==
  /\ alive[t]
  /\ alive[other]
  /\ LET r == MoveAssignResult(nodes, root_, size_, t, other) IN
       /\ nodes' = r.h
       /\ root_' = r.root
       /\ size_' = r.size
  /\ UNCHANGED alive
  /\ UNCHANGED treapVars

\* Concatenate that leaves other.size_ as it was.
ConcatenateKeepsOtherSize(h, root, size, t, other) ==
  LET m == Merge(h, root[t], root[other])
  IN [h |-> m.h,
      root |-> [root EXCEPT ![t] = m.root, ![other] = Null],
      size |-> [size EXCEPT ![t] = size[t] + size[other]]]

\* ImplicitTreap<T>& Concatenate(ImplicitTreap&& other), other a distinct object
ConcatenateResult(h, root, size, t, other) ==
  LET m == Merge(h, root[t], root[other])
  IN [h |-> m.h,
      root |-> [root EXCEPT ![t] = m.root, ![other] = Null],
      size |-> [size EXCEPT ![t] = size[t] + size[other], ![other] = 0]]

Concatenate(t, other) ==
  /\ alive[t]
  /\ alive[other]
  /\ t # other
  /\ size_[t] + size_[other] <= MaxSize
  /\ LET r == ConcatenateResult(nodes, root_, size_, t, other) IN
       /\ nodes' = r.h
       /\ root_' = r.root
       /\ size_' = r.size
  /\ UNCHANGED alive
  /\ UNCHANGED treapVars

\* Erase that splits one element too far and deletes the element after pos.
EraseResultDeletesNext(h, root, size, pos) ==
  LET first_split == Split(h, pos + 2, root)
      second_split == Split(first_split.h, 2, first_split.second)
      h1 == IF second_split.first = Null THEN second_split.h
            ELSE [second_split.h EXCEPT ![second_split.first] = NoNode]
      m == Merge(h1, first_split.first, second_split.second)
  IN [h |-> m.h, root |-> m.root, size |-> size - 1,
      node |-> second_split.first]

\* void Erase(size_t pos)
EraseResult(h, root, size, pos) ==
  LET first_split == Split(h, pos + 1, root)
      second_split == Split(first_split.h, 2, first_split.second)
      h1 == IF second_split.first = Null THEN second_split.h
            ELSE [second_split.h EXCEPT ![second_split.first] = NoNode]
      m == Merge(h1, first_split.first, second_split.second)
  IN [h |-> m.h, root |-> m.root, size |-> size - 1,
      node |-> second_split.first]

\* A call of Erase as the method decides it: assert(root_) is its only check,
\* pos is not compared with size_.  `aborted` means the assertion failed and
\* the call did not return.
EraseCall(h, root, size, pos) ==
  IF root = Null
    THEN [aborted |-> TRUE, h |-> h, root |-> root, size |-> size, node |-> Null]
  ELSE LET r == EraseResult(h, root, size, pos) IN
       [aborted |-> FALSE, h |-> r.h, root |-> r.root, size |-> r.size,
        node |-> r.node]

\* assert(root_), and the documented precondition: pos in [0, treap_size)
Erase(t, pos) ==
  /\ alive[t]
  /\ root_[t] # Null
  /\ pos < size_[t]
  /\ LET r == EraseResult(nodes, root_[t], size_[t], pos) IN
       /\ nodes' = r.h
       /\ root_' = [root_ EXCEPT ![t] = r.root]
       /\ size_' = [size_ EXCEPT ![t] = r.size]
  /\ UNCHANGED alive
  /\ UNCHANGED treapVars

\* Extract that takes start_pos <= end_pos for a range to cut out, and so
\* cuts one element out when the range is empty.
ExtractResultInclusiveEnd(h, root, size, start_pos, end_pos) ==
  LET start_split == Split(h, start_pos + 1, root)
      extracted_num == end_pos - start_pos + 1
      end_split == Split(start_split.h, extracted_num + 1, start_split.second)
      m == Merge(end_split.h, start_split.first, end_split.second)
  IN [h |-> m.h, root |-> m.root, size |-> size - extracted_num,
      result_root |-> end_split.first, result_size |-> extracted_num,
      draws |-> 1]

\* ImplicitTreap Extract(size_t start_pos, size_t end_pos); the returned
\* container is the object `res`.  `draws` is the number of values the call
\* takes from the receiver's rnd_: `ImplicitTreap result(rnd_())` runs before
\* the branches, and a draw advances the generator's state.
ExtractResult(h, root, size, start_pos, end_pos) ==
  IF start_pos = 0 /\ end_pos = size
    THEN [h |-> h, root |-> Null, size |-> 0,
          result_root |-> root, result_size |-> size, draws |-> 1]
  ELSE IF start_pos < end_pos
    THEN LET start_split == Split(h, start_pos + 1, root)
             extracted_num == end_pos - start_pos
             end_split == Split(start_split.h, extracted_num + 1, start_split.second)
             m == Merge(end_split.h, start_split.first, end_split.second)
         IN [h |-> m.h, root |-> m.root, size |-> size - extracted_num,
             result_root |-> end_split.first, result_size |-> extracted_num,
             draws |-> 1]
  ELSE [h |-> h, root |-> root, size |-> size,
        result_root |-> Null, result_size |-> 0, draws |-> 1]

Extract(t, res, start_pos, end_pos) ==
  /\ alive[t]
  /\ ~alive[res]
  /\ end_pos >= start_pos
  /\ end_pos <= size_[t]
  /\ LET r == ExtractResult(nodes, root_[t], size_[t], start_pos, end_pos) IN
       /\ nodes' = r.h
       /\ root_' = [root_ EXCEPT ![t] = r.root, ![res] = r.result_root]
       /\ size_' = [size_ EXCEPT ![t] = r.size, ![res] = r.result_size]
  /\ alive' = [alive EXCEPT ![res] = TRUE]
  /\ UNCHANGED treapVars

\* void Rotate(int count)
RotateResult(h, root, size, count) ==
  IF count = 0 THEN [h |-> h, root |-> root]
  ELSE IF count > 0
    THEN LET c == count % size IN
         IF c = 0 THEN [h |-> h, root |-> root]
         ELSE LET split == Split(h, size - c + 1, root)
                  m == Merge(split.h, split.second, split.first)
              IN [h |-> m.h, root |-> m.root]
    ELSE LET c == (0 - count) % size IN
         IF c = 0 THEN [h |-> h, root |-> root]
         ELSE LET split == Split(h, c + 1, root)
                  m == Merge(split.h, split.second, split.first)
              IN [h |-> m.h, root |-> m.root]

\* A call of Rotate as the method decides it, as the set of its outcomes.
\* With count != 0 and size_ == 0 the method evaluates count % size_, a modulo
\* by zero, which is undefined: the call traps (`trapped`, it did not return)
\* or goes on with some value of the remainder, zero (return) or not (Split at
\* some element number and Merge of the halves swapped).
RotateCall(h, root, size, count) ==
  IF count # 0 /\ size = 0
    THEN {[trapped |-> TRUE, h |-> h, root |-> root],
          [trapped |-> FALSE, h |-> h, root |-> root]}
         \cup {LET split == Split(h, el_number, root)
                   m == Merge(split.h, split.second, split.first)
               IN [trapped |-> FALSE, h |-> m.h, root |-> m.root] :
               el_number \in 1..(MaxSize + 1)}
  ELSE LET r == RotateResult(h, root, size, count) IN
       {[trapped |-> FALSE, h |-> r.h, root |-> r.root]}

\* count % size_ needs size_ != 0 unless count == 0
Rotate(t, count) ==
  /\ alive[t]
  /\ count = 0 \/ size_[t] # 0
  /\ LET r == RotateResult(nodes, root_[t], size_[t], count) IN
       /\ nodes' = r.h
       /\ root_' = [root_ EXCEPT ![t] = r.root]
  /\ UNCHANGED <<alive, size_>>
  /\ UNCHANGED treapVars

\* T& operator[](size_t pos): the node whose value it refers to;
\* assert(root_), assert(pos < size_), then GetElement(root_, pos + 1)
OperatorIndex(h, root, size, pos) ==
  IF root = Null \/ ~(pos < size) THEN Abort
  ELSE GetElement(h, root, pos + 1)

\* `treap[pos] = value;`
AssignResult(h, root, size, pos, value) ==
  [h EXCEPT ![OperatorIndex(h, root, size, pos)].value = value]

Assign(t, pos, value) ==
  /\ alive[t]
  /\ OperatorIndex(nodes, root_[t], size_[t], pos) # Abort
  /\ nodes' = AssignResult(nodes, root_[t], size_[t], pos, value)
  /\ UNCHANGED <<alive, root_, size_>>
  /\ UNCHANGED treapVars

\* void Rotate(size_t begin, size_t new_begin, size_t end): before, the range
\* split at new_begin into (A, B), after; reassembled as before + B + A + after.
RotateRangeResult(h, root, begin, new_begin, end) ==
  LET s1 == Split(h, begin + 1, root)
      s2 == Split(s1.h, end - begin + 1, s1.second)
      s3 == Split(s2.h, new_begin - begin + 1, s2.first)
      m1 == Merge(s3.h, s3.second, s3.first)
      m2 == Merge(m1.h, s1.first, m1.root)
      m3 == Merge(m2.h, m2.root, s2.second)
  IN [h |-> m3.h, root |-> m3.root]

RotateRange(t, begin, new_begin, end) ==
  /\ alive[t]
  /\ begin <= new_begin
  /\ new_begin <= end
  /\ end <= size_[t]
  /\ LET r == RotateRangeResult(nodes, root_[t], begin, new_begin, end) IN
       /\ nodes' = r.h
       /\ root_' = [root_ EXCEPT ![t] = r.root]
  /\ UNCHANGED <<alive, size_>>
  /\ UNCHANGED treapVars

\* Copy construction and copy assignment: every node is cloned into a new
\* node with the same value and priority, the clones linked as the originals.
\* A copy that takes the pointer instead of cloning.
CloneTreeShallow(h, node) == [h |-> h, root |-> node]

RECURSIVE CloneTree(_, _)
CloneTree(h, node) ==
  IF node = Null THEN [h |-> h, root |-> Null]
  ELSE LET copy == NewNodeId(h)
           h0 == [h EXCEPT ![copy] = Node(h[node].value, h[node].priority)]
           l == CloneTree(h0, h[node].left)
           r == CloneTree(l.h, h[node].right)
           h1 == [r.h EXCEPT ![copy].left = l.root, ![copy].right = r.root]
       IN [h |-> FixTreeSize(FixParent(h1, copy), copy), root |-> copy]

\* ImplicitTreap(const ImplicitTreap& other): `t` is constructed from `other`
CopyConstructResult(h, root, size, t, other) ==
  LET c == CloneTree(h, root[other])
  IN [h |-> c.h, root |-> [root EXCEPT ![t] = c.root],
      size |-> [size EXCEPT ![t] = size[other]]]

CopyConstruct(t, other) ==
  /\ ~alive[t]
  /\ alive[other]
  /\ Cardinality(FreeIds(nodes)) >= Len(Seq_(other))
  /\ LET r == CopyConstructResult(nodes, root_, size_, t, other) IN
       /\ nodes' = r.h
       /\ root_' = r.root
       /\ size_' = r.size
  /\ alive' = [alive EXCEPT ![t] = TRUE]
  /\ UNCHANGED treapVars

\* ImplicitTreap& operator=(const ImplicitTreap& other): nothing when other is
\* this object; else the old nodes are destroyed and other's are cloned.
CopyAssignResult(h, root, size, t, other) ==
  IF t = other THEN [h |-> h, root |-> root, size |-> size]
  ELSE LET c == CloneTree(DeleteTree(h, root[t]), root[other])
       IN [h |-> c.h, root |-> [root EXCEPT ![t] = c.root],
           size |-> [size EXCEPT ![t] = size[other]]]

CopyAssign(t, other) ==
  /\ alive[t]
  /\ alive[other]
  /\ t = other \/ Cardinality(FreeIds(DeleteTree(nodes, root_[t]))) >= Len(Seq_(other))
  /\ LET r == CopyAssignResult(nodes, root_, size_, t, other) IN
       /\ nodes' = r.h
       /\ root_' = r.root
       /\ size_' = r.size
  /\ UNCHANGED alive
  /\ UNCHANGED treapVars

Inputs(n) == UNION {[1..k -> Values] : k \in 0..n}

\* ------------------------------------------------- alpa::Treap (treap.h)
TreapAllocated(h) == {n \in TreapNodeIds : h[n] # TreapNoNode}
TreapFreeIds(h) == TreapNodeIds \ TreapAllocated(h)
TreapNewNodeId(h) ==
  CHOOSE n \in TreapFreeIds(h) : \A m \in TreapFreeIds(h) : n <= m

\* Merge that, with lhs on top, hangs rhs in place of lhs->right.
RECURSIVE TreapMergeDropsRight(_, _, _)
TreapMergeDropsRight(h, lhs, rhs) ==
  IF lhs = Null THEN [h |-> h, root |-> rhs]
  ELSE IF rhs = Null THEN [h |-> h, root |-> lhs]
  ELSE IF h[lhs].priority > h[rhs].priority
    THEN [h |-> [h EXCEPT ![lhs].right = rhs], root |-> lhs]
  ELSE LET m == TreapMergeDropsRight(h, lhs, h[rhs].left) IN
       [h |-> [m.h EXCEPT ![rhs].left = m.root], root |-> rhs]

\* static Node* Merge(Node* lhs, Node* rhs)
RECURSIVE TreapMerge(_, _, _)
TreapMerge(h, lhs, rhs) ==
  IF lhs = Null THEN [h |-> h, root |-> rhs]
  ELSE IF rhs = Null THEN [h |-> h, root |-> lhs]
  ELSE IF h[lhs].priority > h[rhs].priority
    THEN LET m == TreapMerge(h, h[lhs].right, rhs) IN
         [h |-> [m.h EXCEPT ![lhs].right = m.root], root |-> lhs]
  ELSE LET m == TreapMerge(h, lhs, h[rhs].left) IN
       [h |-> [m.h EXCEPT ![rhs].left = m.root], root |-> rhs]

\* static std::pair<Node*, Node*> Split(const K& key, Node* root)
RECURSIVE TreapSplit(_, _, _)
TreapSplit(h, key, root) ==
  IF root = Null THEN [h |-> h, first |-> Null, second |-> Null]
  ELSE IF h[root].key < key
    THEN LET splitted_right == TreapSplit(h, key, h[root].right) IN
         [h |-> [splitted_right.h EXCEPT ![root].right = splitted_right.first],
          first |-> root, second |-> splitted_right.second]
  ELSE LET splitted_left == TreapSplit(h, key, h[root].left) IN
       [h |-> [splitted_left.h EXCEPT ![root].left = splitted_left.second],
        first |-> splitted_left.first, second |-> root]

\* AddChildToParent with the sides exchanged.
AddChildToParentOtherSide(h, parent, child, to_left) ==
  IF to_left THEN [h EXCEPT ![parent].right = child]
  ELSE [h EXCEPT ![parent].left = child]

\* static void AddChildToParent(Node* parent, Node* child, bool to_left)
AddChildToParent(h, parent, child, to_left) ==
  IF to_left THEN [h EXCEPT ![parent].left = child]
  ELSE [h EXCEPT ![parent].right = child]

\* V* Find(const K& key): the pointer it returns is the node that holds the
\* value, Null when the key is not found.
RECURSIVE TreapFindFrom(_, _, _)
TreapFindFrom(h, curr_ptr, key) ==
  IF curr_ptr = Null THEN Null
  ELSE IF key < h[curr_ptr].key THEN TreapFindFrom(h, h[curr_ptr].left, key)
  ELSE IF h[curr_ptr].key < key THEN TreapFindFrom(h, h[curr_ptr].right, key)
  ELSE curr_ptr

TreapFind(h, root, key) == TreapFindFrom(h, root, key)

\* bool Empty() const, size_t Size() const
TreapEmpty(root) == root = Null
TreapSize(size) == size

\* The descent of Insert: down from the root while the node's priority is
\* above the new one; gives the last node passed and the node stopped at.
RECURSIVE TreapInsertDescent(_, _, _, _, _)
TreapInsertDescent(h, parent, curr_ptr, key, priority) ==
  IF curr_ptr = Null \/ h[curr_ptr].priority <= priority
    THEN [parent |-> parent, curr_ptr |-> curr_ptr]
  ELSE TreapInsertDescent(h, curr_ptr,
         IF key < h[curr_ptr].key THEN h[curr_ptr].left ELSE h[curr_ptr].right,
         key, priority)

\* V* Insert(const K& key, const V& value); priority is the value rnd_() gives
\* when the key is absent, ptr the pointer returned.
TreapInsertResult(h, root, size, key, value, priority) ==
  LET old_value == TreapFind(h, root, key) IN
  IF old_value # Null
    THEN [h |-> h, root |-> root, size |-> size, ptr |-> old_value]
  ELSE
    LET d == TreapInsertDescent(h, Null, root, key, priority)
        new_node == TreapNewNodeId(h)
        h1 == [h EXCEPT ![new_node] = TreapNode(key, value, priority)]
        h2 == IF d.curr_ptr # Null
                THEN LET splitted == TreapSplit(h1, key, d.curr_ptr) IN
                     [splitted.h EXCEPT ![new_node].left = splitted.first,
                                        ![new_node].right = splitted.second]
              ELSE h1
        h3 == IF d.parent = Null THEN h2
              ELSE AddChildToParent(h2, d.parent, new_node, key < h2[d.parent].key)
    IN [h |-> h3, root |-> IF d.parent = Null THEN new_node ELSE root,
        size |-> size + 1, ptr |-> new_node]

\* A new node needs a free slot of the arena.
TreapInsert(key, value, priority) ==
  /\ TreapFind(treap_nodes, treap_root_, key) # Null
       \/ TreapFreeIds(treap_nodes) # {}
  /\ LET r == TreapInsertResult(treap_nodes, treap_root_, treap_size_,
                                key, value, priority) IN
       /\ treap_nodes' = r.h
       /\ treap_root_' = r.root
       /\ treap_size_' = r.size
  /\ UNCHANGED <<nodes, alive, root_, size_>>

\* The descent of Erase: down by the key; gives the node with the key, Null
\* when there is none, and its parent.
RECURSIVE TreapEraseDescent(_, _, _, _)
TreapEraseDescent(h, parent, curr_ptr, key) ==
  IF curr_ptr = Null THEN [parent |-> parent, curr_ptr |-> Null]
  ELSE IF h[curr_ptr].key < key
    THEN TreapEraseDescent(h, curr_ptr, h[curr_ptr].right, key)
  ELSE IF key < h[curr_ptr].key
    THEN TreapEraseDescent(h, curr_ptr, h[curr_ptr].left, key)
  ELSE [parent |-> parent, curr_ptr |-> curr_ptr]

\* bool Erase(const K& key); ret is the value returned.
TreapEraseResult(h, root, size, key) ==
  LET d == TreapEraseDescent(h, Null, root, key) IN
  IF d.curr_ptr = Null
    THEN [h |-> h, root |-> root, size |-> size, ret |-> FALSE]
  ELSE
    LET replacement == TreapMerge(h, h[d.curr_ptr].left, h[d.curr_ptr].right)
        h1 == IF d.parent = Null THEN replacement.h
              ELSE AddChildToParent(replacement.h, d.parent, replacement.root,
                                    key < replacement.h[d.parent].key)
        root1 == IF d.parent = Null THEN replacement.root ELSE root
        h2 == [h1 EXCEPT ![d.curr_ptr] = TreapNoNode]
    IN [h |-> h2, root |-> IF size - 1 = 0 THEN Null ELSE root1,
        size |-> size - 1, ret |-> TRUE]

TreapErase(key) ==
  /\ LET r == TreapEraseResult(treap_nodes, treap_root_, treap_size_, key) IN
       /\ treap_nodes' = r.h
       /\ treap_root_' = r.root
       /\ treap_size_' = r.size
  /\ UNCHANGED <<nodes, alive, root_, size_>>

Next ==
  \/ \E t \in Treaps : Construct(t)
  \/ \E t \in Treaps : Destroy(t)
  \/ \E t \in Treaps : \E input \in Inputs(Cardinality(FreeIds(nodes))) :
       \E prios \in [1..Len(input) -> Priorities] : BulkConstruct(t, input, prios)
  \/ \E t \in Treaps, v \in Values, pos \in Positions, p \in Priorities :
       Insert(t, v, pos, p)
  \/ \E t \in Treaps, pos \in Positions : Erase(t, pos)
  \/ \E t, res \in Treaps : \E start_pos, end_pos \in Positions :
       Extract(t, res, start_pos, end_pos)
  \/ \E t, other \in Treaps : Concatenate(t, other)
  \/ \E t \in Treaps, count \in Counts : Rotate(t, count)
  \/ \E t, other \in Treaps : Swap(t, other)
  \/ \E t, other \in Treaps : MoveConstruct(t, other)
  \/ \E t, other \in Treaps : MoveAssign(t, other)
  \/ \E t \in Treaps, pos \in Positions, v \in Values : Assign(t, pos, v)

\* The operations of the header, and Rotate(begin, new_begin, end) beside them.
NextWithRange ==
  \/ Next
  \/ \E t \in Treaps : \E begin, new_begin, end \in Positions :
       RotateRange(t, begin, new_begin, end)

\* The operations of the header, and the copy operations beside them.
NextWithCopy ==
  \/ Next
  \/ \E t, other \in Treaps : CopyConstruct(t, other)
  \/ \E t, other \in Treaps : CopyAssign(t, other)

Spec == Init /\ [][Next]_vars
SpecWithRange == Init /\ [][NextWithRange]_vars
SpecWithCopy == Init /\ [][NextWithCopy]_vars

\* The operations of the keyed treap.
NextTreap ==
  \/ \E key \in Keys, value \in Values, priority \in Priorities :
       TreapInsert(key, value, priority)
  \/ \E key \in Keys : TreapErase(key)

SpecTreap == Init /\ [][NextTreap]_vars

\* ------------------------------------------------------------ properties
Vals(t) == ValuesOf(nodes, Seq_(t))

\* C1: Insert(value, pos) on a container holding s (n elements) gives
\* s[0..p) + [value] + s[p..n) with p = min(pos, n); Size() grows by one and
\* the reference returned is the value of the node just created.
InsertPlacesValue ==
  \A t \in Treaps : \A value \in Values, pos \in Positions, p \in Priorities :
    (alive[t] /\ FreeIds(nodes) # {}) =>
      LET s == Seq_(t)
          n == Len(s)
          at == Min(pos, n)
          r == InsertResult(nodes, root_[t], size_[t], value, pos, p)
          after == InOrder(r.h, r.root)
      IN /\ r.node \notin Allocated(nodes)
         /\ after = Slice(s, 0, at) \o <<r.node>> \o Slice(s, at, n)
         /\ ValuesOf(r.h, after) =
              Slice(Vals(t), 0, at) \o <<value>> \o Slice(Vals(t), at, n)
         /\ r.h[r.node].value = value
         /\ r.size = size_[t] + 1

\* A container of two elements that takes a third between them, and takes one
\* at the end when pos is past the end.
InsertPlacesValueWitness ==
  \E t \in Treaps, value \in Values, p \in Priorities :
    /\ alive[t] /\ FreeIds(nodes) # {}
    /\ Len(Seq_(t)) = 2 /\ size_[t] = 2
    /\ Vals(t)[1] # value
    /\ LET r == InsertResult(nodes, root_[t], size_[t], value, 1, p)
       IN InOrder(r.h, r.root)[2] = r.node
    /\ LET r == InsertResult(nodes, root_[t], size_[t], value, 3, p)
       IN InOrder(r.h, r.root)[3] = r.node

\* C2: Erase(pos) with pos < Size() removes exactly the element at pos: the
\* sequence becomes s[0..pos) + s[pos+1..n), Size() drops by one, and erasing
\* the only element leaves the container empty.
EraseRemovesElement ==
  \A t \in Treaps : \A pos \in Positions :
    (alive[t] /\ root_[t] # Null /\ pos < size_[t]) =>
      LET s == Seq_(t)
          n == Len(s)
          r == EraseResult(nodes, root_[t], size_[t], pos)
          after == InOrder(r.h, r.root)
      IN /\ Len(after) = n - 1
         /\ after = Slice(s, 0, pos) \o Slice(s, pos + 1, n)
         /\ r.size = size_[t] - 1
         /\ (n = 1 => r.root = Null)

\* C3: Extract(start, end) with start <= end <= Size() returns s[start..end)
\* with Size() == end - start and leaves s[0..start) + s[end..n) with
\* Size() == n - (end - start); the two containers share no node.
ExtractTakesRange ==
  \A t \in Treaps : \A start_pos, end_pos \in Positions :
    (alive[t] /\ start_pos <= end_pos /\ end_pos <= size_[t]) =>
      LET s == Seq_(t)
          n == Len(s)
          r == ExtractResult(nodes, root_[t], size_[t], start_pos, end_pos)
          taken == InOrder(r.h, r.result_root)
          kept == InOrder(r.h, r.root)
      IN /\ Len(taken) = end_pos - start_pos
         /\ taken = Slice(s, start_pos, end_pos)
         /\ r.result_size = end_pos - start_pos
         /\ kept = Slice(s, 0, start_pos) \o Slice(s, end_pos, n)
         /\ r.size = n - (end_pos - start_pos)
         /\ {taken[i] : i \in 1..Len(taken)} \cap {kept[i] : i \in 1..Len(kept)} = {}

\* C4: a.Concatenate(std::move(b)), a and b distinct, leaves a holding seq(a)
\* followed by seq(b) with the sum of both sizes, and b empty with Size() 0.
ConcatenateAppends ==
  \A t, other \in Treaps :
    (alive[t] /\ alive[other] /\ t # other) =>
      LET r == ConcatenateResult(nodes, root_, size_, t, other)
          after == InOrder(r.h, r.root[t])
      IN /\ after = Seq_(t) \o Seq_(other)
         /\ ValuesOf(r.h, after) = Vals(t) \o Vals(other)
         /\ r.size[t] = size_[t] + size_[other]
         /\ r.root[other] = Null
         /\ r.size[other] = 0

\* Two non-empty containers, three elements between them, about to be joined.
ConcatenateAppendsWitness ==
  \E t, other \in Treaps :
    /\ alive[t] /\ alive[other] /\ t # other
    /\ Len(Seq_(t)) >= 1 /\ Len(Seq_(other)) >= 1
    /\ Len(Seq_(t)) + Len(Seq_(other)) = 3
    /\ size_[other] = Len(Seq_(other))
    /\ LET r == ConcatenateResult(nodes, root_, size_, t, other)
       IN Len(InOrder(r.h, r.root[t])) = 3 /\ r.size[other] = 0

\* s rotated to the right by k places, 0 <= k < Len(s)
RotatedRight(s, k) == Slice(s, Len(s) - k, Len(s)) \o Slice(s, 0, Len(s) - k)

\* C5: Rotate(count) on a non-empty container of size n rotates the sequence
\* right by count places for count > 0 and left by |count| places for
\* count < 0, counts beyond n wrapping around; Size() does not change.
RotateByCount ==
  \A t \in Treaps : \A count \in Counts :
    (alive[t] /\ root_[t] # Null) =>
      LET s == Seq_(t)
          n == Len(s)
          r == RotateResult(nodes, root_[t], size_[t], count)
          after == InOrder(r.h, r.root)
      IN after = RotatedRight(s, count % n)

BulkConstructHoldsInput ==
  /\ (\E t \in Treaps : ~alive[t]) =>
       \A input \in Inputs(Cardinality(FreeIds(nodes))) :
         \A prios \in [1..Len(input) -> Priorities] :
           LET r == BulkResult(nodes, input, prios)
               after == InOrder(r.h, r.root)
           IN /\ ValuesOf(r.h, after) = input
              /\ r.size = Len(input)
              /\ (r.root = Null) <=> (input = <<>>)
              /\ \A i \in 1..Len(after) : after[i] \notin Allocated(nodes)
              /\ \A n \in Allocated(nodes) : r.h[n] = nodes[n]
  /\ \A u \in Treaps : alive[u] =>
       \A prios \in [1..Len(Seq_(u)) -> Priorities] :
         LET r == BulkResult(DeleteTree(nodes, root_[u]), Vals(u), prios)
         IN /\ ValuesOf(r.h, InOrder(r.h, r.root)) = Vals(u)
            /\ r.size = Len(Seq_(u))

\* A container of three elements, not all equal, read out and rebuilt into a
\* tree whose third node climbed past the second and took it as its left child.
BulkConstructHoldsInputWitness ==
  \E u \in Treaps :
    /\ alive[u] /\ Len(Seq_(u)) = 3 /\ Vals(u)[1] # Vals(u)[3]
    /\ \E prios \in [1..3 -> Priorities] :
         LET r == BulkResult(DeleteTree(nodes, root_[u]), Vals(u), prios)
         IN /\ r.h[r.root].right # Null
            /\ r.h[r.h[r.root].right].left # Null
            /\ ValuesOf(r.h, InOrder(r.h, r.root)) = Vals(u)

\* C8: after every public operation every container has Size() equal to the
\* tree_size of its root, or 0 when the root is null.
SizeIsRootTreeSize ==
  \A t \in Treaps : alive[t] => size_[t] = GetTreeSize(nodes, root_[t])

Reachable(t) == {Seq_(t)[i] : i \in 1..Len(Seq_(t))}

\* C9: every node reachable from a root has
\* tree_size == 1 + size(left) + size(right), a null child counting 0.
SubtreeSizesExact ==
  \A t \in Treaps : \A n \in Reachable(t) :
    nodes[n].tree_size =
      1 + GetTreeSize(nodes, nodes[n].left) + GetTreeSize(nodes, nodes[n].right)

\* A root with a left and a right child.
SubtreeSizesExactWitness ==
  \E t \in Treaps :
    /\ alive[t] /\ root_[t] # Null
    /\ nodes[root_[t]].left # Null /\ nodes[root_[t]].right # Null
    /\ nodes[root_[t]].tree_size = 3

\* C10: every reachable node's priority is >= the priority of each of its
\* children, whatever the priorities drawn, equal ones included.
HeapOrdered ==
  \A t \in Treaps : \A n \in Reachable(t) :
    /\ nodes[n].left # Null => nodes[n].priority >= nodes[nodes[n].left].priority
    /\ nodes[n].right # Null => nodes[n].priority >= nodes[nodes[n].right].priority

\* A tree of three nodes in which a parent is above a child of equal priority
\* and above a child of lower priority.
HeapOrderedWitness ==
  \E t \in Treaps : \E n \in Reachable(t) :
    /\ Len(Seq_(t)) = 3
    /\ \E c \in {nodes[n].left, nodes[n].right} \ {Null} :
         nodes[c].priority = nodes[n].priority
    /\ \E m \in Reachable(t) : \E c \in {nodes[m].left, nodes[m].right} \ {Null} :
         nodes[c].priority < nodes[m].priority

\* C11: after every public operation the root of every container has a null
\* parent, and every other reachable node n has n.parent equal to the one
\* node whose left or right child is n.
ParentsExact ==
  \A t \in Treaps :
    /\ root_[t] # Null => nodes[root_[t]].parent = Null
    /\ \A n \in Reachable(t) \ {root_[t]} :
         LET ps == {m \in Allocated(nodes) :
                      nodes[m].left = n \/ nodes[m].right = n}
         IN Cardinality(ps) = 1 /\ nodes[n].parent \in ps

\* A chain of three nodes (a node whose parent is not the root) that hangs
\* on a right child somewhere, beside a second container that is not empty
\* or gone.
ParentsExactWitness ==
  \E t \in Treaps : \E n \in Reachable(t) :
    /\ nodes[n].parent # Null
    /\ nodes[nodes[n].parent].parent # Null
    /\ \E m \in Reachable(t) : nodes[m].right # Null

\* The nodes ++ visits from `it` until its node is null, and the iterator
\* it has become then.
RECURSIVE Walk(_, _)
Walk(h, it) ==
  IF it.curr_node_ \notin NodeIds THEN <<>>
  ELSE <<it.curr_node_>> \o Walk(h, OperatorInc(h, it))

RECURSIVE WalkEnd(_, _)
WalkEnd(h, it) ==
  IF it.curr_node_ \notin NodeIds THEN it ELSE WalkEnd(h, OperatorInc(h, it))

Elems(s) == {s[i] : i \in 1..Len(s)}
IndexOf(s, x) == CHOOSE i \in 1..Len(s) : s[i] = x
\* s from its element x to its end
From(s, x) == SubSeq(s, IndexOf(s, x), Len(s))

\* The iterator captured on node x of container t, in heap h0, designates
\* in heap h the same node with the same value, and ++ takes it through
\* what follows x in `after` to an iterator equal to End() captured before.
StillDesignates(h0, h, after, t, x) ==
  /\ x \in Elems(after)
  /\ OperatorDeref(h, Iterator(x, t)) = OperatorDeref(h0, Iterator(x, t))
  /\ Walk(h, Iterator(x, t)) = From(after, x)
  /\ OperatorEq(WalkEnd(h, Iterator(x, t)), End(t)) = 1

\* C12: an iterator captured on an element before an Insert, Erase, Rotate
\* or Extract designates the same element afterwards unless that element was
\* erased or extracted, and ++ visits exactly the elements that follow it in
\* the new sequence and then equals an End() captured before the operation.
IteratorsSurvive ==
  \A t \in Treaps : \A x \in Reachable(t) :
    LET s == Seq_(t) IN
    /\ FreeIds(nodes) # {} =>
         \A value \in Values, pos \in Positions, p \in Priorities :
           LET r == InsertResult(nodes, root_[t], size_[t], value, pos, p)
           IN StillDesignates(nodes, r.h, InOrder(r.h, r.root), t, x)
    /\ \A pos \in Positions :
         (pos < size_[t] /\ x # (IF pos < Len(s) THEN s[pos + 1] ELSE Null)) =>
           LET r == EraseResult(nodes, root_[t], size_[t], pos)
           IN StillDesignates(nodes, r.h, InOrder(r.h, r.root), t, x)
    /\ \A count \in Counts :
         LET r == RotateResult(nodes, root_[t], size_[t], count)
         IN StillDesignates(nodes, r.h, InOrder(r.h, r.root), t, x)
    /\ \A start_pos, end_pos \in Positions :
         (start_pos <= end_pos /\ end_pos <= size_[t]
            /\ x \notin Elems(Slice(s, start_pos, end_pos))) =>
           LET r == ExtractResult(nodes, root_[t], size_[t], start_pos, end_pos)
           IN StillDesignates(nodes, r.h, InOrder(r.h, r.root), t, x)

\* Three elements and an iterator on the first: erasing or extracting the
\* second leaves it followed by the third, rotating by one leaves it followed
\* by the second only.
IteratorsSurviveWitness ==
  \E t \in Treaps :
    /\ alive[t] /\ Len(Seq_(t)) = 3 /\ size_[t] = 3
    /\ LET s == Seq_(t)
           e == EraseResult(nodes, root_[t], size_[t], 1)
           x == ExtractResult(nodes, root_[t], size_[t], 1, 2)
           r == RotateResult(nodes, root_[t], size_[t], 1)
       IN /\ Walk(e.h, Iterator(s[1], t)) = <<s[1], s[3]>>
          /\ Walk(x.h, Iterator(s[1], t)) = <<s[1], s[3]>>
          /\ Walk(r.h, Iterator(s[1], t)) = <<s[1], s[2]>>
          /\ nodes[s[1]].right # Null \/ nodes[s[1]].parent # Null

\* The iterator captured on node x through container `host`, used in heap h
\* with roots `root` and sizes `size`, where x is the i-th element of
\* `after`: *, ++, --, + shift and - behave as the position i says.
ActsAtPosition(h0, h, root, size, after, host, x) ==
  LET it == Iterator(x, host)
      i == IndexOf(after, x)
  IN /\ OperatorDeref(h, it) = OperatorDeref(h0, it)
     /\ OperatorInc(h, it) =
          Iterator(IF i < Len(after) THEN after[i + 1] ELSE Null, host)
     /\ i > 1 => OperatorDec(h, root, it) = Iterator(after[i - 1], host)
     /\ \A shift \in Counts :
          (1 <= i + shift /\ i + shift <= Len(after)) =>
            /\ OperatorPlus(h, root, size, it, shift) =
                 {Iterator(after[i + shift], host)}
            /\ OperatorMinus(h, root, size, it, 0 - shift) =
                 {Iterator(after[i + shift], host)}
     /\ \A y \in Elems(after) :
          y \in Reachable(host) =>
            OperatorDiff(h, size, it, Iterator(y, host)) =
              [aborted |-> FALSE, value |-> i - IndexOf(after, y)]

\* C13: after a.Concatenate(std::move(b)) every iterator captured before on
\* an element of a or of b still dereferences to the same element and
\* supports ++, --, shifting and difference as the element's position in the
\* concatenated sequence says, no assertion failing.
ConcatenateKeepsIterators ==
  \A t, other \in Treaps :
    (alive[t] /\ alive[other] /\ t # other) =>
      LET r == ConcatenateResult(nodes, root_, size_, t, other)
          after == InOrder(r.h, r.root[t])
      IN \A host \in {t, other} : \A x \in Reachable(host) :
           /\ x \in Elems(after)
           /\ ActsAtPosition(nodes, r.h, r.root, r.size, after, host, x)

\* The iterator at position i (0-based) of container t; position n is End().
IteratorAt(t, i) ==
  Iterator(IF i < Len(Seq_(t)) THEN Seq_(t)[i + 1] ELSE Null, t)

\* C14: in a container of n >= 1 elements ++ takes the iterator at position
\* i < n-1 to position i+1 and the one at n-1 to End(); -- takes End() to the
\* last element and the iterator at i >= 1 to i-1; so n increments from
\* Begin() reach End() having visited the sequence in order.
IncDecStepByOne ==
  \A t \in Treaps :
    LET n == Len(Seq_(t)) IN
    n >= 1 =>
      /\ Begin(nodes, root_, t) = IteratorAt(t, 0)
      /\ \A i \in 0..(n - 1) :
           OperatorInc(nodes, IteratorAt(t, i)) = IteratorAt(t, i + 1)
      /\ \A i \in 1..n :
           OperatorDec(nodes, root_, IteratorAt(t, i)) = IteratorAt(t, i - 1)
      /\ OperatorDec(nodes, root_, End(t)) = IteratorAt(t, n - 1)
      /\ Walk(nodes, Begin(nodes, root_, t)) = Seq_(t)
      /\ OperatorEq(WalkEnd(nodes, Begin(nodes, root_, t)), End(t)) = 1

\* Three elements in a tree where ++ has to descend to the leftmost node of a
\* right subtree, and -- to the rightmost node of a left subtree.
IncDecStepByOneWitness ==
  \E t \in Treaps :
    /\ Len(Seq_(t)) = 3
    /\ \E n \in Reachable(t) :
         nodes[n].right # Null /\ nodes[nodes[n].right].left # Null
    /\ OperatorDec(nodes, root_, End(t)) = IteratorAt(t, 2)

\* C15: for every iterator at position i in [0, n] of a container of size n
\* (position n is End()) and every shift k with 0 <= i + k <= n, it + k,
\* k + it and it - (-k) give the iterator at position i + k, End() when
\* i + k == n; shifts of End() itself, End() + 0 and End() - n, included.
ShiftReachesPosition ==
  \A t \in Treaps : alive[t] =>
    LET n == Len(Seq_(t)) IN
    \A i \in 0..n : \A k \in Counts :
      (0 <= i + k /\ i + k <= n) =>
        /\ OperatorPlus(nodes, root_, size_, IteratorAt(t, i), k) =
             {IteratorAt(t, i + k)}
        /\ OperatorMinus(nodes, root_, size_, IteratorAt(t, i), 0 - k) =
             {IteratorAt(t, i + k)}

\* C16: for two iterators a and b of one container at positions i and j in
\* [0, n], End() at position n, a - b is i - j as a signed int; in
\* particular End() - Begin() == Size().
DifferenceIsDistance ==
  \A t \in Treaps : alive[t] =>
    LET n == Len(Seq_(t)) IN
    /\ \A i, j \in 0..n :
         OperatorDiff(nodes, size_, IteratorAt(t, i), IteratorAt(t, j)) =
           [aborted |-> FALSE, value |-> i - j]
    /\ OperatorDiff(nodes, size_, End(t), Begin(nodes, root_, t)) =
         [aborted |-> FALSE, value |-> Size(t)]

\* C17: for every pos < Size(), operator[](pos) refers to the value of the
\* node at in-order position pos, so a write through it changes that element
\* of the sequence and no other; on an empty container or with pos >= Size()
\* it fails an assertion.
IndexRefersToPosition ==
  \A t \in Treaps : alive[t] =>
    \A pos \in Positions :
      LET s == Seq_(t)
          node == OperatorIndex(nodes, root_[t], size_[t], pos)
      IN /\ (pos < Size(t) /\ ~Empty(t)) =>
              /\ pos < Len(s)
              /\ node = s[pos + 1]
              /\ \A value \in Values :
                   LET h == AssignResult(nodes, root_[t], size_[t], pos, value)
                   IN /\ \A u \in Treaps : InOrder(h, root_[u]) = Seq_(u)
                      /\ ValuesOf(h, s) = [Vals(t) EXCEPT ![pos + 1] = value]
                      /\ \A u \in Treaps \ {t} : ValuesOf(h, Seq_(u)) = Vals(u)
         /\ (Empty(t) \/ pos >= Size(t)) => node = Abort

\* The nodes of the tree under `node`.
TreeNodes(h, node) == Elems(InOrder(h, node))

\* C18: move construction and move assignment give the destination the
\* source's sequence and size, move assignment destroys the destination's
\* previous nodes exactly once, and the source is left empty: Empty() is true
\* and Size() == 0.
MoveLeavesSourceEmpty ==
  \A t, other \in Treaps :
    /\ (~alive[t] /\ alive[other]) =>
         LET r == MoveConstructResult(root_, size_, t, other)
         IN /\ InOrder(nodes, r.root[t]) = Seq_(other)
            /\ r.size[t] = size_[other]
            /\ r.root[other] = Null
            /\ r.size[other] = 0
    /\ (alive[t] /\ alive[other] /\ t # other) =>
         LET r == MoveAssignResult(nodes, root_, size_, t, other)
         IN /\ InOrder(r.h, r.root[t]) = Seq_(other)
            /\ ValuesOf(r.h, Seq_(other)) = Vals(other)
            /\ r.size[t] = size_[other]
            /\ Reachable(t) \subseteq FreeIds(r.h)
            /\ \A u \in Treaps : TreeNodes(r.h, r.root[u]) \cap Reachable(t) = {}
            /\ r.root[other] = Null
            /\ r.size[other] = 0

\* C19: move-assigning a container to itself is a no-op: the same nodes, the
\* same sequence, the same Size(), and no node destroyed.
SelfMoveAssignIsNoOp ==
  \A t \in Treaps : alive[t] =>
    LET r == MoveAssignResult(nodes, root_, size_, t, t)
    IN /\ r.h = nodes
       /\ r.root = root_
       /\ r.size = size_
       /\ InOrder(r.h, r.root[t]) = Seq_(t)

\* A container of three elements about to be move-assigned to itself.
SelfMoveAssignIsNoOpWitness ==
  \E t \in Treaps :
    /\ alive[t] /\ Len(Seq_(t)) = 3 /\ size_[t] = 3
    /\ Len(InOrder(MoveAssignResult(nodes, root_, size_, t, t).h,
                   MoveAssignResult(nodes, root_, size_, t, t).root[t])) = 3

\* The container with root `copy` and size `size` in heap h is a deep clone
\* of container `other` as it is in the current state: the same values in the
\* same order, walked by ++ from its first node, the same Size(), no node in
\* common, the original untouched, and a write or an Erase in either of the
\* two not seen in the other.
IsDeepClone(h, copy, size, other) ==
  LET cs == InOrder(h, copy) IN
  /\ ValuesOf(h, cs) = Vals(other)
  /\ Walk(h, Iterator(FindFirstNode(h, copy), other)) = cs
  /\ size = size_[other]
  /\ Elems(cs) \cap Reachable(other) = {}
  /\ InOrder(h, root_[other]) = Seq_(other)
  /\ \A n \in Reachable(other) : h[n] = nodes[n]
  /\ \A pos \in 0..(Len(cs) - 1) :
       /\ \A value \in Values :
            /\ ValuesOf(AssignResult(h, copy, Len(cs), pos, value), Seq_(other))
                 = Vals(other)
            /\ ValuesOf(AssignResult(h, root_[other], Len(cs), pos, value), cs)
                 = Vals(other)
       /\ LET e == EraseResult(h, copy, Len(cs), pos)
          IN /\ InOrder(e.h, root_[other]) = Seq_(other)
             /\ ValuesOf(e.h, Seq_(other)) = Vals(other)
       /\ LET e == EraseResult(h, root_[other], Len(cs), pos)
          IN /\ InOrder(e.h, copy) = cs
             /\ ValuesOf(e.h, cs) = Vals(other)

EraseOutOfRangeAsserts ==
  \A t \in Treaps : \A pos \in 0..(MaxSize + 1) :
    (alive[t] /\ pos >= Size(t)) =>
      EraseCall(nodes, root_[t], size_[t], pos).aborted

\* C22: Rotate(count) on an empty container returns for every count, zero or
\* not, without a modulo by zero, and leaves the container empty with
\* Size() = 0.
RotateOnEmptyIsNoOp ==
  \A t \in Treaps : \A count \in Counts :
    (alive[t] /\ Empty(t)) =>
      \A o \in RotateCall(nodes, root_[t], size_[t], count) :
        /\ ~o.trapped
        /\ o.h = nodes
        /\ o.root = Null
        /\ Size(t) = 0

\* C23 as stated: Extract(start, end) with start = end <= Size() returns an
\* empty container and leaves the receiver untouched: no field of a node, the
\* root and Size() unchanged, and the receiver's priority source in the state
\* it had before the call (nothing drawn from it).
EmptyExtractLeavesPrioritySource ==
  \A t \in Treaps : \A pos \in Positions :
    (alive[t] /\ pos <= Size(t)) =>
      LET r == ExtractResult(nodes, root_[t], size_[t], pos, pos) IN
        /\ r.result_root = Null /\ r.result_size = 0
        /\ r.h = nodes /\ r.root = root_[t] /\ r.size = size_[t]
        /\ r.draws = 0

\* C23: Extract(start, end) with start = end <= Size() returns an empty
\* container and changes no field of a node, nor the root, nor Size(); it
\* takes exactly one value from the receiver's priority source, the seed of
\* the container it returns.
EmptyExtractDrawsSeed ==
  \A t \in Treaps : \A pos \in Positions :
    (alive[t] /\ pos <= Size(t)) =>
      LET r == ExtractResult(nodes, root_[t], size_[t], pos, pos) IN
        /\ r.result_root = Null /\ r.result_size = 0
        /\ r.h = nodes /\ r.root = root_[t] /\ r.size = size_[t]
        /\ r.draws = 1

\* An empty range taken inside a container of three elements.
EmptyExtractDrawsSeedWitness ==
  \E t \in Treaps :
    /\ alive[t] /\ Len(Seq_(t)) = 3 /\ Size(t) = 3
    /\ LET r == ExtractResult(nodes, root_[t], size_[t], 1, 1) IN
         /\ r.result_root = Null /\ r.result_size = 0
         /\ r.root = root_[t] /\ r.draws = 1

\* The nodes of the keyed tree under a root, and the keys they hold.
RECURSIVE TreapTreeNodes(_, _)
TreapTreeNodes(h, node) ==
  IF node = Null THEN {}
  ELSE {node} \cup TreapTreeNodes(h, h[node].left)
              \cup TreapTreeNodes(h, h[node].right)

TreapKeys(h, root) == {h[n].key : n \in TreapTreeNodes(h, root)}

\* What Find gives for a key, as the caller sees it: found or not, and the
\* value found.
TreapLookup(h, root, key) ==
  LET ptr == TreapFind(h, root, key) IN
  IF ptr = Null THEN [found |-> FALSE, value |-> 0]
  ELSE [found |-> TRUE, value |-> h[ptr].value]

\* C24: Insert(key, value) with a key already present changes nothing (same
\* Size(), same stored value, same tree) and returns the pointer to the value
\* already stored; with an absent key it adds exactly that key, Size() grows
\* by 1, the pointer returned is to the new value, Find(key) gives that value
\* and Find of every other key is unchanged.
TreapInsertAddsKey ==
  \A key \in Keys : \A value \in Values : \A priority \in Priorities :
    LET present == TreapFind(treap_nodes, treap_root_, key) # Null IN
    (present \/ TreapFreeIds(treap_nodes) # {}) =>
      LET r == TreapInsertResult(treap_nodes, treap_root_, treap_size_,
                                 key, value, priority)
      IN IF present
           THEN /\ r.h = treap_nodes
                /\ r.root = treap_root_
                /\ TreapSize(r.size) = TreapSize(treap_size_)
                /\ r.ptr # Null
                /\ r.ptr = TreapFind(treap_nodes, treap_root_, key)
                /\ TreapLookup(r.h, r.root, key)
                     = TreapLookup(treap_nodes, treap_root_, key)
         ELSE /\ TreapKeys(r.h, r.root)
                   = TreapKeys(treap_nodes, treap_root_) \cup {key}
              /\ Cardinality(TreapTreeNodes(r.h, r.root))
                   = Cardinality(TreapTreeNodes(treap_nodes, treap_root_)) + 1
              /\ TreapSize(r.size) = TreapSize(treap_size_) + 1
              /\ r.ptr # Null
              /\ r.ptr \notin TreapAllocated(treap_nodes)
              /\ r.h[r.ptr].value = value
              /\ TreapFind(r.h, r.root, key) = r.ptr
              /\ \A k \in Keys \ {key} :
                   /\ TreapFind(r.h, r.root, k)
                        = TreapFind(treap_nodes, treap_root_, k)
                   /\ TreapLookup(r.h, r.root, k)
                        = TreapLookup(treap_nodes, treap_root_, k)

\* A treap of two keys whose root has the higher priority: the key between
\* them is absent and goes below the root, the root's key is present.
TreapInsertAddsKeyWitness ==
  /\ TreapKeys(treap_nodes, treap_root_) = {1, 3}
  /\ TreapSize(treap_size_) = 2
  /\ treap_nodes[treap_root_].priority = 2
  /\ LET r == TreapInsertResult(treap_nodes, treap_root_, treap_size_, 2, 1, 1)
     IN /\ r.root = treap_root_
        /\ TreapKeys(r.h, r.root) = {1, 2, 3}
        /\ TreapLookup(r.h, r.root, 2) = [found |-> TRUE, value |-> 1]
  /\ LET r == TreapInsertResult(treap_nodes, treap_root_, treap_size_,
                                treap_nodes[treap_root_].key, 2, 1)
     IN r.ptr = treap_root_ /\ r.h = treap_nodes

\* C25: Erase(key) returns true exactly when the key is present; it then
\* removes that key only: Find(key) gives null, every other key is found with
\* its value, Size() is one less, and Empty() holds when the last key went.
\* With the key absent it returns false and changes nothing.
TreapEraseRemovesKey ==
  \A key \in Keys \cup {0, MaxKey + 1} :
    LET present == TreapFind(treap_nodes, treap_root_, key) # Null
        r == TreapEraseResult(treap_nodes, treap_root_, treap_size_, key)
    IN /\ r.ret = present
       /\ IF present
            THEN /\ TreapFind(r.h, r.root, key) = Null
                 /\ TreapKeys(r.h, r.root)
                      = TreapKeys(treap_nodes, treap_root_) \ {key}
                 /\ \A k \in Keys \ {key} :
                      /\ TreapFind(r.h, r.root, k)
                           = TreapFind(treap_nodes, treap_root_, k)
                      /\ TreapLookup(r.h, r.root, k)
                           = TreapLookup(treap_nodes, treap_root_, k)
                 /\ TreapSize(r.size) = TreapSize(treap_size_) - 1
                 /\ TreapAllocated(r.h)
                      = TreapAllocated(treap_nodes)
                          \ {TreapFind(treap_nodes, treap_root_, key)}
                 /\ TreapEmpty(r.root)
                      <=> TreapKeys(treap_nodes, treap_root_) = {key}
                 /\ TreapEmpty(r.root) <=> TreapSize(r.size) = 0
          ELSE /\ r.h = treap_nodes
               /\ r.root = treap_root_
               /\ r.size = treap_size_

\* A treap of four keys whose root has two children, the left one with a
\* right child of its own: erasing the root's key merges the two subtrees;
\* erasing the keys one after another empties the treap.
TreapEraseRemovesKeyWitness ==
  /\ TreapSize(treap_size_) = 4
  /\ treap_nodes[treap_root_].left # Null
  /\ treap_nodes[treap_root_].right # Null
  /\ treap_nodes[treap_nodes[treap_root_].left].right # Null
  /\ LET r == TreapEraseResult(treap_nodes, treap_root_, treap_size_,
                               treap_nodes[treap_root_].key)
     IN /\ r.ret
        /\ Cardinality(TreapKeys(r.h, r.root)) = 3
        /\ TreapSize(r.size) = 3
        /\ LET r2 == TreapEraseResult(r.h, r.root, r.size, r.h[r.root].key)
               r3 == TreapEraseResult(r2.h, r2.root, r2.size, r2.h[r2.root].key)
               r4 == TreapEraseResult(r3.h, r3.root, r3.size, r3.h[r3.root].key)
           IN r4.ret /\ TreapEmpty(r4.root) /\ TreapSize(r4.size) = 0

\* A tree in the heap h that is well-formed below its root: every node's
\* tree_size is exact and the parent of each child is the node.
WellFormedBelow(h, root) ==
  \A n \in TreeNodes(h, root) :
    /\ h[n].tree_size
         = 1 + GetTreeSize(h, h[n].left) + GetTreeSize(h, h[n].right)
    /\ h[n].left # Null => h[h[n].left].parent = n
    /\ h[n].right # Null => h[h[n].right].parent = n

\* Split(el_number, root) in the heap h gives the first min(el_number - 1, n)
\* elements and the rest, in order, with exact sizes and links.
SplitIsExact(h, el_number, root) ==
  LET seq == InOrder(h, root)
      n == Len(seq)
      k == Min(el_number - 1, n)
      s == Split(h, el_number, root)
  IN /\ InOrder(s.h, s.first) = SubSeq(seq, 1, k)
     /\ InOrder(s.h, s.second) = SubSeq(seq, k + 1, n)
     /\ GetTreeSize(s.h, s.first) + GetTreeSize(s.h, s.second) = n
     /\ GetTreeSize(s.h, s.first) = k
     /\ (s.first = Null) <=> (k = 0)
     /\ (s.second = Null) <=> (k = n)
     /\ s.first # Null => s.h[s.first].parent = Null
     /\ s.second # Null => s.h[s.second].parent = Null
     /\ WellFormedBelow(s.h, s.first)
     /\ WellFormedBelow(s.h, s.second)

ElementNumbers == 1..(MaxSize + 2)

\* C26: Split(el_number, root) with el_number >= 1 on a well-formed tree of n
\* nodes returns (L, R): L holds the first min(el_number - 1, n) elements in
\* order, R the rest in order, size(L) + size(R) = n, either may be null, and
\* each non-null result root has a null parent, exact tree_size and exact
\* parent links below it.  The trees are the roots of the containers and the
\* halves a first Split leaves.
SplitGivesPrefixAndRest ==
  \A t \in Treaps : alive[t] =>
    \A el_number \in ElementNumbers :
      /\ SplitIsExact(nodes, el_number, root_[t])
      /\ LET s == Split(nodes, el_number, root_[t]) IN
           \A el2 \in ElementNumbers :
             /\ SplitIsExact(s.h, el2, s.first)
             /\ SplitIsExact(s.h, el2, s.second)

\* A root with two children, split after its first element: both results are
\* trees, of one and of two nodes.
SplitGivesPrefixAndRestWitness ==
  \E t \in Treaps :
    /\ alive[t] /\ root_[t] # Null
    /\ nodes[root_[t]].left # Null /\ nodes[root_[t]].right # Null
    /\ LET s == Split(nodes, 2, root_[t]) IN
         /\ s.first # Null /\ s.second # Null
         /\ Len(InOrder(s.h, s.first)) = 1
         /\ Len(InOrder(s.h, s.second)) = 2
         /\ s.h[s.second].parent = Null

\* Merge(l, r) in the heap h holds the sequence of l followed by that of r
\* and is null only when both are.
MergeIsConcatenation(h, l, r) ==
  LET m == Merge(h, l, r) IN
    /\ InOrder(m.h, m.root) = InOrder(h, l) \o InOrder(h, r)
    /\ (m.root = Null) <=> (l = Null /\ r = Null)

\* C27: for every well-formed tree and every el_number in [1, n + 1], Merge
\* of the two halves of Split(el_number, root), in order, has the original
\* in-order sequence; and for any two well-formed trees the sequence of
\* Merge(l, r) is that of l followed by that of r, null only when both are
\* null.  The pairs of trees are the roots of two containers and the halves of
\* a Split taken in the other order.
MergeUndoesSplit ==
  /\ \A t \in Treaps : alive[t] =>
       \A el_number \in 1..(Len(Seq_(t)) + 1) :
         LET s == Split(nodes, el_number, root_[t])
             m == Merge(s.h, s.first, s.second)
         IN /\ InOrder(m.h, m.root) = Seq_(t)
            /\ MergeIsConcatenation(s.h, s.first, s.second)
            /\ MergeIsConcatenation(s.h, s.second, s.first)
  /\ \A t, other \in Treaps :
       (alive[t] /\ alive[other] /\ t # other) =>
         MergeIsConcatenation(nodes, root_[t], root_[other])

\* Two containers, of two nodes and of one: the first one's tree split in the
\* middle and merged again, and the two trees merged.
MergeUndoesSplitWitness ==
  \E t, other \in Treaps :
    /\ alive[t] /\ alive[other] /\ t # other
    /\ Len(Seq_(t)) = 2 /\ Len(Seq_(other)) = 1
    /\ LET s == Split(nodes, 2, root_[t])
           m == Merge(s.h, s.first, s.second)
       IN s.first # Null /\ s.second # Null /\ InOrder(m.h, m.root) = Seq_(t)
    /\ LET m == Merge(nodes, root_[t], root_[other]) IN
         InOrder(m.h, m.root) = Seq_(t) \o Seq_(other)

\* The nodes of S hold in h2 the value and the priority they hold in h1.
SameContents(h1, h2, S) ==
  \A n \in S : h2[n].value = h1[n].value /\ h2[n].priority = h1[n].priority

\* The trees under a and b in the heap h are, together, exactly the nodes of
\* S, each once, none in both.
Partition(h, a, b, S) ==
  /\ TreeNodes(h, a) \cup TreeNodes(h, b) = S
  /\ TreeNodes(h, a) \cap TreeNodes(h, b) = {}
  /\ Len(InOrder(h, a)) + Len(InOrder(h, b)) = Cardinality(S)

\* Split in the heap h relinks the nodes of the tree and nothing else.
SplitOnlyRelinks(h, el_number, root) ==
  LET s == Split(h, el_number, root) IN
    /\ Partition(s.h, s.first, s.second, TreeNodes(h, root))
    /\ Allocated(s.h) = Allocated(h)
    /\ SameContents(h, s.h, NodeIds)

\* Merge in the heap h relinks the nodes of the two trees and nothing else.
MergeOnlyRelinks(h, l, r) ==
  LET m == Merge(h, l, r) IN
    /\ Partition(m.h, m.root, Null, TreeNodes(h, l) \cup TreeNodes(h, r))
    /\ Allocated(m.h) = Allocated(h)
    /\ SameContents(h, m.h, NodeIds)

\* C28: Merge and Split only relink existing nodes: the nodes reachable from
\* the outputs are those reachable from the inputs, none created, lost,
\* duplicated or shared between the two Split results; and the value and the
\* priority of every node are unchanged by Merge, Split, Insert, Erase,
\* Extract, Concatenate and Rotate, except for the one node Insert creates and
\* the one node Erase destroys.
OnlyRelinks ==
  /\ \A t \in Treaps : alive[t] =>
       \A el_number \in ElementNumbers :
         /\ SplitOnlyRelinks(nodes, el_number, root_[t])
         /\ LET s == Split(nodes, el_number, root_[t]) IN
              /\ MergeOnlyRelinks(s.h, s.first, s.second)
              /\ MergeOnlyRelinks(s.h, s.second, s.first)
  /\ \A t, other \in Treaps :
       (alive[t] /\ alive[other] /\ t # other) =>
         /\ MergeOnlyRelinks(nodes, root_[t], root_[other])
         /\ LET r == ConcatenateResult(nodes, root_, size_, t, other) IN
              /\ Allocated(r.h) = Allocated(nodes)
              /\ SameContents(nodes, r.h, NodeIds)
              /\ Partition(r.h, r.root[t], r.root[other],
                           Reachable(t) \cup Reachable(other))
  /\ \A t \in Treaps : alive[t] =>
       /\ \A value \in Values, pos \in Positions, p \in Priorities :
            FreeIds(nodes) # {} =>
              LET r == InsertResult(nodes, root_[t], size_[t], value, pos, p) IN
                /\ r.node \notin Allocated(nodes)
                /\ Allocated(r.h) = Allocated(nodes) \cup {r.node}
                /\ SameContents(nodes, r.h, Allocated(nodes))
                /\ r.h[r.node].value = value /\ r.h[r.node].priority = p
                /\ Partition(r.h, r.root, Null, Reachable(t) \cup {r.node})
       /\ \A pos \in Positions :
            (root_[t] # Null /\ pos < size_[t]) =>
              LET r == EraseResult(nodes, root_[t], size_[t], pos) IN
                /\ Allocated(r.h) = Allocated(nodes) \ {r.node}
                /\ SameContents(nodes, r.h, Allocated(r.h))
                /\ Partition(r.h, r.root, Null, Reachable(t) \ {r.node})
       /\ \A start_pos, end_pos \in Positions :
            (start_pos <= end_pos /\ end_pos <= size_[t]) =>
              LET r == ExtractResult(nodes, root_[t], size_[t], start_pos, end_pos)
              IN /\ Allocated(r.h) = Allocated(nodes)
                 /\ SameContents(nodes, r.h, NodeIds)
                 /\ Partition(r.h, r.root, r.result_root, Reachable(t))
       /\ \A count \in Counts :
            (count = 0 \/ size_[t] # 0) =>
              LET r == RotateResult(nodes, root_[t], size_[t], count) IN
                /\ Allocated(r.h) = Allocated(nodes)
                /\ SameContents(nodes, r.h, NodeIds)
                /\ Partition(r.h, r.root, Null, Reachable(t))

\* A tree of two nodes split after its first element into two trees that
\* share no node, with a node to spare for Insert at the front, which becomes
\* the root, and Erase of the first element.
OnlyRelinksWitness ==
  \E t \in Treaps :
    /\ alive[t] /\ Len(Seq_(t)) = 2 /\ FreeIds(nodes) # {}
    /\ LET s == Split(nodes, 2, root_[t]) IN
         /\ s.first # Null /\ s.second # Null /\ s.h # nodes
         /\ TreeNodes(s.h, s.first) \cap TreeNodes(s.h, s.second) = {}
    /\ LET r == InsertResult(nodes, root_[t], size_[t], 1, 1, 2) IN
         /\ Cardinality(TreeNodes(r.h, r.root)) = 3
         /\ r.root = r.node
    /\ LET r == EraseResult(nodes, root_[t], size_[t], 0) IN
         Cardinality(Allocated(r.h)) = Cardinality(Allocated(nodes)) - 1

\* Insert(input[i], Size()) for i = from, from + 1, ... on the container
\* st = [h, root, size], the i-th call drawing prios[i].
RECURSIVE InsertAll(_, _, _, _)
InsertAll(st, input, prios, i) ==
  IF i > Len(input) THEN st
  ELSE LET r == InsertResult(st.h, st.root, st.size, input[i], st.size, prios[i])
       IN InsertAll([h |-> r.h, root |-> r.root, size |-> r.size],
                    input, prios, i + 1)

\* The priorities a seed can give to the elements of an input, all distinct:
\* as many values as the arena has nodes.
DistinctPriorities(n) ==
  {prios \in [1..n -> 1..MaxNodes] :
     \A i, j \in 1..n : i # j => prios[i] # prios[j]}

\* C29: for every input and every draw of pairwise distinct priorities, bulk
\* construction builds exactly the tree (same nodes, same left, right and
\* parent, same tree_size, priority and value, same root and Size()) that an
\* empty container reaches by Insert(input[i], Size()) for i = 0, 1, ... with
\* the same draws.
BulkEqualsInserts ==
  \A input \in Inputs(Cardinality(FreeIds(nodes))) :
    \A prios \in DistinctPriorities(Len(input)) :
      LET b == BulkResult(nodes, input, prios)
          q == InsertAll([h |-> nodes, root |-> Null, size |-> 0], input, prios, 1)
      IN b.h = q.h /\ b.root = q.root /\ b.size = q.size

\* No node is in use, so an input of three elements can be built: with the
\* priorities 2, 3, 1 the second element is the root with a child on either
\* side, built both ways.
BulkEqualsInsertsWitness ==
  /\ FreeIds(nodes) = NodeIds
  /\ \E t \in Treaps : ~alive[t]
  /\ LET input == <<1, 2, 1>>
         prios == <<2, 3, 1>>
         b == BulkResult(nodes, input, prios)
         q == InsertAll([h |-> nodes, root |-> Null, size |-> 0], input, prios, 1)
     IN /\ b.h[b.root].priority = 3
        /\ b.h[b.root].left # Null /\ b.h[b.root].right # Null
        /\ b.h[b.root].tree_size = 3
        /\ q.h = b.h /\ q.root = b.root

Shifts == (0 - (MaxSize + 1))..(MaxSize + 1)

\* C30: stepping before the first element fails no assertion and gives the
\* past-the-end iterator: for a non-empty container --Begin() and Begin() - k
\* for every k >= 1, and it + k for an iterator on an element whose target
\* position is below 0 or above Size() - 1, compare equal to End().
StepBeforeFirstIsEnd ==
  \A t \in Treaps :
    LET n == Len(Seq_(t)) IN
    (alive[t] /\ n >= 1) =>
      /\ OperatorDec(nodes, root_, Begin(nodes, root_, t)) = End(t)
      /\ OperatorEq(OperatorDec(nodes, root_, Begin(nodes, root_, t)), End(t)) = 1
      /\ \A k \in 1..(MaxSize + 1) :
           OperatorMinus(nodes, root_, size_, Begin(nodes, root_, t), k)
             = {End(t)}
      /\ \A i \in 0..(n - 1) : \A k \in Shifts :
           (i + k < 0 \/ i + k > Size(t) - 1) =>
             /\ OperatorPlus(nodes, root_, size_, IteratorAt(t, i), k) = {End(t)}
             /\ \A it \in OperatorPlus(nodes, root_, size_, IteratorAt(t, i), k) :
                  OperatorEq(it, End(t)) = 1

\* Three elements: --Begin(), Begin() - 1, the middle element - 2 and the last
\* element + 1 are End().
StepBeforeFirstIsEndWitness ==
  \E t \in Treaps :
    /\ alive[t] /\ Len(Seq_(t)) = 3 /\ Size(t) = 3
    /\ Begin(nodes, root_, t).curr_node_ # Null
    /\ OperatorDec(nodes, root_, Begin(nodes, root_, t)) = End(t)
    /\ OperatorMinus(nodes, root_, size_, Begin(nodes, root_, t), 1) = {End(t)}
    /\ OperatorMinus(nodes, root_, size_, IteratorAt(t, 1), 2) = {End(t)}
    /\ OperatorPlus(nodes, root_, size_, IteratorAt(t, 2), 1) = {End(t)}

\* ---------------------------------------------------------------- lemmas
\* What Erase, Extract and Rotate(count) do on a container whose Size() is
\* the number of elements it holds.
SizeExact(t) == size_[t] = Len(Seq_(t))

EraseRemovesElementWhenSizeExact ==
  \A t \in Treaps : \A pos \in Positions :
    (alive[t] /\ SizeExact(t) /\ root_[t] # Null /\ pos < size_[t]) =>
      LET s == Seq_(t)
          n == Len(s)
          r == EraseResult(nodes, root_[t], size_[t], pos)
          after == InOrder(r.h, r.root)
      IN /\ Len(after) = n - 1
         /\ after = Slice(s, 0, pos) \o Slice(s, pos + 1, n)
         /\ r.node = s[pos + 1]
         /\ r.size = size_[t] - 1
         /\ (n = 1 => r.root = Null)

ExtractTakesRangeWhenSizeExact ==
  \A t \in Treaps : \A start_pos, end_pos \in Positions :
    (alive[t] /\ SizeExact(t) /\ start_pos <= end_pos /\ end_pos <= size_[t]) =>
      LET s == Seq_(t)
          n == Len(s)
          r == ExtractResult(nodes, root_[t], size_[t], start_pos, end_pos)
          taken == InOrder(r.h, r.result_root)
          kept == InOrder(r.h, r.root)
      IN /\ taken = Slice(s, start_pos, end_pos)
         /\ r.result_size = Len(taken)
         /\ kept = Slice(s, 0, start_pos) \o Slice(s, end_pos, n)
         /\ r.size = Len(kept)

RotateByCountWhenSizeExact ==
  \A t \in Treaps : \A count \in Counts :
    (alive[t] /\ SizeExact(t) /\ root_[t] # Null) =>
      LET s == Seq_(t)
          r == RotateResult(nodes, root_[t], size_[t], count)
      IN InOrder(r.h, r.root) = RotatedRight(s, count % Len(s))

\* Concatenate and the iterators captured on the receiver a.
ConcatenateKeepsReceiverIterators ==
  \A t, other \in Treaps :
    (alive[t] /\ alive[other] /\ t # other) =>
      LET r == ConcatenateResult(nodes, root_, size_, t, other)
          after == InOrder(r.h, r.root[t])
      IN \A x \in Reachable(t) :
           /\ x \in Elems(after)
           /\ ActsAtPosition(nodes, r.h, r.root, r.size, after, t, x)

\* Shifts in a container whose Size() is the number of its elements, the
\* shift of End() by 0 left out.
ShiftReachesPositionWhenSizeExact ==
  \A t \in Treaps : (alive[t] /\ SizeExact(t)) =>
    LET n == Len(Seq_(t)) IN
    \A i \in 0..n : \A k \in Counts :
      (0 <= i + k /\ i + k <= n /\ ~(i = n /\ k = 0)) =>
        /\ OperatorPlus(nodes, root_, size_, IteratorAt(t, i), k) =
             {IteratorAt(t, i + k)}
        /\ OperatorMinus(nodes, root_, size_, IteratorAt(t, i), 0 - k) =
             {IteratorAt(t, i + k)}

\* End() + 0 fails assert(root) in GetElement, in every container.
EndPlusZeroAborts ==
  \A t \in Treaps : alive[t] =>
    OperatorPlus(nodes, root_, size_, End(t), 0) = {Iterator(Abort, t)}
      \/ ~SizeExact(t)

\* Differences in a container whose Size() is the number of its elements.
DifferenceIsDistanceWhenSizeExact ==
  \A t \in Treaps : (alive[t] /\ SizeExact(t)) =>
    LET n == Len(Seq_(t)) IN
    /\ \A i, j \in 0..n :
         OperatorDiff(nodes, size_, IteratorAt(t, i), IteratorAt(t, j)) =
           [aborted |-> FALSE, value |-> i - j]
    /\ OperatorDiff(nodes, size_, End(t), Begin(nodes, root_, t)) =
         [aborted |-> FALSE, value |-> Size(t)]

\* operator[] in a container whose Size() is the number of its elements.
IndexRefersToPositionWhenSizeExact ==
  \A t \in Treaps : (alive[t] /\ SizeExact(t)) =>
    \A pos \in Positions :
      LET s == Seq_(t)
          node == OperatorIndex(nodes, root_[t], size_[t], pos)
      IN /\ (pos < Size(t) /\ ~Empty(t)) =>
              /\ node = s[pos + 1]
              /\ \A value \in Values :
                   LET h == AssignResult(nodes, root_[t], size_[t], pos, value)
                   IN /\ \A u \in Treaps : InOrder(h, root_[u]) = Seq_(u)
                      /\ ValuesOf(h, s) = [Vals(t) EXCEPT ![pos + 1] = value]
                      /\ \A u \in Treaps \ {t} : ValuesOf(h, Seq_(u)) = Vals(u)
         /\ (Empty(t) \/ pos >= Size(t)) => node = Abort

\* What the moves do give: the destination has the source's sequence and
\* size, move assignment frees the destination's previous nodes, and the
\* source has a null root.
MoveTransfersSequence ==
  \A t, other \in Treaps :
    /\ (~alive[t] /\ alive[other]) =>
         LET r == MoveConstructResult(root_, size_, t, other)
         IN /\ InOrder(nodes, r.root[t]) = Seq_(other)
            /\ r.size[t] = size_[other]
            /\ r.root[other] = Null
    /\ (alive[t] /\ alive[other] /\ t # other) =>
         LET r == MoveAssignResult(nodes, root_, size_, t, other)
         IN /\ InOrder(r.h, r.root[t]) = Seq_(other)
            /\ ValuesOf(r.h, Seq_(other)) = Vals(other)
            /\ r.size[t] = size_[other]
            /\ Reachable(t) \subseteq FreeIds(r.h)
            /\ \A u \in Treaps : TreeNodes(r.h, r.root[u]) \cap Reachable(t) = {}
            /\ r.root[other] = Null

\* Erase with pos >= Size() on a non-empty container whose Size() is exact
\* returns: no node is destroyed, the sequence is the same, Size() is one less
\* than the number of elements.
EraseOutOfRangeReturns ==
  \A t \in Treaps : \A pos \in 0..(MaxSize + 1) :
    (alive[t] /\ root_[t] # Null /\ SizeExact(t) /\ pos >= Size(t)) =>
      LET r == EraseCall(nodes, root_[t], size_[t], pos) IN
        /\ ~r.aborted
        /\ r.node = Null
        /\ Allocated(r.h) = Allocated(nodes)
        /\ InOrder(r.h, r.root) = InOrder(nodes, root_[t])
        /\ r.size = Size(t) - 1
        /\ r.size # Len(InOrder(r.h, r.root))

\* On an empty container Erase fails assert(root_), whatever the position.
EraseOnEmptyAsserts ==
  \A t \in Treaps : \A pos \in 0..(MaxSize + 1) :
    (alive[t] /\ root_[t] = Null) =>
      EraseCall(nodes, root_[t], size_[t], pos).aborted

\* Rotate(0) on an empty container whose Size() is 0 returns and changes
\* nothing: count == 0 returns before the remainder is taken.
RotateZeroOnEmptyIsNoOp ==
  \A t \in Treaps :
    (alive[t] /\ Empty(t) /\ Size(t) = 0) =>
      RotateCall(nodes, root_[t], size_[t], 0) =
        {[trapped |-> FALSE, h |-> nodes, root |-> Null]}

\* Rotate(count) with count != 0 on an empty container whose Size() is 0 takes
\* the remainder by zero.
RotateOnEmptyTakesRemainderByZero ==
  \A t \in Treaps : \A count \in Counts \ {0} :
    (alive[t] /\ Empty(t) /\ Size(t) = 0) =>
      \E o \in RotateCall(nodes, root_[t], size_[t], count) : o.trapped

\* With two equal priorities the two constructions part: the bulk loop keeps
\* the earlier element on top (it climbs only past lower priorities), Insert
\* at the end puts the new element on top (Merge keeps lhs on top only when
\* its priority is higher).
BulkDiffersFromInsertsOnTies ==
  Cardinality(FreeIds(nodes)) >= 2 =>
    LET input == <<1, 2>>
        prios == <<1, 1>>
        b == BulkResult(nodes, input, prios)
        q == InsertAll([h |-> nodes, root |-> Null, size |-> 0], input, prios, 1)
    IN /\ b.h # q.h
       /\ b.h[b.root].value = 1
       /\ q.h[q.root].value = 2
       /\ ValuesOf(b.h, InOrder(b.h, b.root)) = ValuesOf(q.h, InOrder(q.h, q.root))

TypeOK ==
  /\ alive \in [Treaps -> BOOLEAN]
  /\ root_ \in [Treaps -> NodeIds \cup {Null}]
  /\ size_ \in [Treaps -> 0..MaxSize]
  /\ treap_root_ \in TreapNodeIds \cup {Null}
  /\ treap_size_ \in 0..MaxKey
====
